---- MODULE Spec2Model ----
(***************************************************************************)
(* A model of the chess rules engine of lbeierlieb/chess                   *)
(* (src/gamelogic): board snapshots, move generation with the              *)
(* simulate-then-check legality filter, the check detector and the         *)
(* transition function, driven by move requests as try_move_handler of     *)
(* src/main.rs issues them.                                                *)
(*                                                                         *)
(* Option<T> is modelled as a sequence: None is << >>, Some(x) is <<x>>.   *)
(* A Vec<T> is a sequence, in the order the code builds it.                *)
(***************************************************************************)
EXTENDS Integers, Sequences, FiniteSets, TLC

VARIABLES game, ply, call, outcome

vars == <<game, ply, call, outcome>>

\* ------------------------------------------------------------------------
\* Option
None == << >>

Some(x) == <<x>>

is_some(o) == o # << >>

unwrap(o) == o[1]

\* How a call of a function of the engine ends: it returns a value, or the
\* thread panics (expect on None, panic!(), todo!()).
Returned(value) == [kind |-> "returned", value |-> <<value>>]

Panicked == [kind |-> "panicked", value |-> << >>]

\* ------------------------------------------------------------------------
\* pieces.rs
White == "White"

Black == "Black"

Colors == {White, Black}

other(color) == IF color = White THEN Black ELSE White

King == "King"

Queen == "Queen"

Rook == "Rook"

Bishop == "Bishop"

Knight == "Knight"

Pawn == "Pawn"

PieceTypes == {King, Queen, Rook, Bishop, Knight, Pawn}

Piece(piece_type, color) ==
    [piece_type |-> piece_type, color |-> color, has_moved |-> FALSE]

\* ------------------------------------------------------------------------
\* coordinates.rs
North == "North"

NorthEast == "NorthEast"

East == "East"

SouthEast == "SouthEast"

South == "South"

SouthWest == "SouthWest"

West == "West"

NorthWest == "NorthWest"

\* A to_x_y whose NorthWest points where SouthWest does.
to_x_y_north_west_down(dir) ==
    CASE dir = North -> <<0, 1>>
      [] dir = NorthEast -> <<1, 1>>
      [] dir = East -> <<1, 0>>
      [] dir = SouthEast -> <<1, -1>>
      [] dir = South -> <<0, -1>>
      [] dir = SouthWest -> <<-1, -1>>
      [] dir = West -> <<-1, 0>>
      [] dir = NorthWest -> <<-1, -1>>

to_x_y(dir) ==
    CASE dir = North -> <<0, 1>>
      [] dir = NorthEast -> <<1, 1>>
      [] dir = East -> <<1, 0>>
      [] dir = SouthEast -> <<1, -1>>
      [] dir = South -> <<0, -1>>
      [] dir = SouthWest -> <<-1, -1>>
      [] dir = West -> <<-1, 0>>
      [] dir = NorthWest -> <<-1, 1>>

all_non_diagonal == <<North, East, South, West>>

all_diagonal == <<NorthEast, SouthEast, SouthWest, NorthWest>>

\* A list of all directions that names North twice.
all_north_twice == <<North>> \o all_non_diagonal \o all_diagonal

all == all_non_diagonal \o all_diagonal

\* An is_same_axis that finds no two directions on one axis.
is_same_axis_never(dir, other_dir) == FALSE

is_same_axis(dir, other_dir) ==
    LET x == to_x_y(dir)[1]
        y == to_x_y(dir)[2]
        xo == to_x_y(other_dir)[1]
        yo == to_x_y(other_dir)[2]
    IN  (x = xo /\ y = yo) \/ (x = -xo /\ y = -yo)

\* The largest file and rank index of the board (x <= 7 && y <= 7).
MaxCoordinate == 7

I8Min == -128

I8Max == 127

U8Max == 255

\* Position { x, y } as the pair <<x, y>>.
Positions == (0..MaxCoordinate) \X (0..MaxCoordinate)

new_checked(x, y) ==
    IF x <= MaxCoordinate /\ y <= MaxCoordinate THEN Some(<<x, y>>) ELSE None

\* A Position::new that builds the position without the check.
new_unchecked(x, y) == Returned(<<x, y>>)

\* Position::new: expect() of new_checked.
new(x, y) ==
    IF is_some(new_checked(x, y)) THEN Returned(unwrap(new_checked(x, y))) ELSE Panicked

\* A &str is the sequence of its chars, each the number of its code point.
\* The number of bytes of a char in UTF-8.
len_utf8(c) == IF c < 128 THEN 1 ELSE IF c < 2048 THEN 2 ELSE IF c < 65536 THEN 3 ELSE 4

\* str::len: the number of bytes of the text.
RECURSIVE len(_)
len(text) == IF text = << >> THEN 0 ELSE len_utf8(Head(text)) + len(Tail(text))

\* c as u8: the low eight bits of the code point.
as_u8(c) == c % (U8Max + 1)

\* u8::wrapping_sub
wrapping_sub(a, b) == (a - b) % (U8Max + 1)

\* 'A' and '1'
CharA == 65

Char1 == 49

\* A from_str that counts the chars of the text only, not its bytes.
from_str_by_chars(text) ==
    IF Len(text) # 2
    THEN Panicked
    ELSE LET x == wrapping_sub(as_u8(text[1]), as_u8(CharA))
             y == wrapping_sub(as_u8(text[2]), as_u8(Char1))
         IN  IF is_some(new_checked(x, y))
             THEN Returned(unwrap(new_checked(x, y)))
             ELSE Panicked

from_str(text) ==
    IF len(text) # 2
    THEN Panicked
    ELSE IF Len(text) # 2
    THEN Panicked
    ELSE LET x == wrapping_sub(as_u8(text[1]), as_u8(CharA))
             y == wrapping_sub(as_u8(text[2]), as_u8(Char1))
         IN  IF is_some(new_checked(x, y))
             THEN Returned(unwrap(new_checked(x, y)))
             ELSE Panicked

\* i8::checked_mul
checked_mul(a, b) ==
    IF a * b < I8Min \/ a * b > I8Max THEN None ELSE Some(a * b)

\* u8::checked_add_signed
checked_add_signed(u, i) ==
    IF u + i < 0 \/ u + i > U8Max THEN None ELSE Some(u + i)

\* A moved that returns the coordinates it computed without new_checked.
moved_without_check(pos, dir, amount) ==
    LET xdir == to_x_y(dir)[1]
        ydir == to_x_y(dir)[2]
        xmul == checked_mul(xdir, amount)
        x == IF is_some(xmul) THEN checked_add_signed(pos[1], unwrap(xmul)) ELSE None
        ymul == checked_mul(ydir, amount)
        y == IF is_some(ymul) THEN checked_add_signed(pos[2], unwrap(ymul)) ELSE None
    IN  IF is_some(x) /\ is_some(y) THEN Some(<<unwrap(x), unwrap(y)>>) ELSE None

moved(pos, dir, amount) ==
    LET xdir == to_x_y(dir)[1]
        ydir == to_x_y(dir)[2]
        xmul == checked_mul(xdir, amount)
        x == IF is_some(xmul) THEN checked_add_signed(pos[1], unwrap(xmul)) ELSE None
        ymul == checked_mul(ydir, amount)
        y == IF is_some(ymul) THEN checked_add_signed(pos[2], unwrap(ymul)) ELSE None
    IN  IF is_some(x) /\ is_some(y) THEN new_checked(unwrap(x), unwrap(y)) ELSE None

Directions == {North, NorthEast, East, SouthEast, South, SouthWest, West, NorthWest}

\* moved(<<x, y>>, dir, amount) for the positions of the board and the amounts
\* the engine moves by (1 to 7), computed once.
MovedTable ==
    [amount \in 1..7 |->
        [x \in 0..MaxCoordinate |->
            [y \in 0..MaxCoordinate |->
                [dir \in Directions |-> moved(<<x, y>>, dir, amount)]]]]

\* pos.moved(dir, amount), read from the table.
step(pos, dir, amount) == MovedTable[amount][pos[1]][pos[2]][dir]

\* (distance..=max_steps).filter_map(|i| origin.moved(dir, i)): the positions of
\* the board met from origin in one direction, nearest first.
RECURSIVE steps(_, _, _, _)
steps(origin, dir, distance, max_steps) ==
    IF distance > max_steps
    THEN << >>
    ELSE (IF is_some(moved(origin, dir, distance))
          THEN <<unwrap(moved(origin, dir, distance))>>
          ELSE << >>)
         \o steps(origin, dir, distance + 1, max_steps)

\* steps(<<x, y>>, dir, 1, max_steps) for the two step counts the engine scans
\* with (1 for the king's move, 7 for every other scan), computed once.
StepsTable ==
    [max_steps \in {1, 7} |->
        [x \in 0..MaxCoordinate |->
            [y \in 0..MaxCoordinate |->
                [dir \in Directions |-> steps(<<x, y>>, dir, 1, max_steps)]]]]

\* The inner filter_map of the knight's jump over second_dir, from the m-th on:
\* origin.moved(first_dir, 2).and_then(|pos| pos.moved(second_dir, 1)), skipping
\* a second_dir on first_dir's axis (knight_destinations returns None for it;
\* is_king_in_check filters it out).
RECURSIVE knight_jumps_second(_, _, _)
knight_jumps_second(origin, first_dir, m) ==
    IF m > Len(all_non_diagonal)
    THEN << >>
    ELSE LET second_dir == all_non_diagonal[m]
             first == moved(origin, first_dir, 2)
             jump == IF is_some(first) THEN moved(unwrap(first), second_dir, 1) ELSE None
         IN  (IF is_same_axis(first_dir, second_dir) \/ ~is_some(jump)
              THEN << >>
              ELSE <<unwrap(jump)>>)
             \o knight_jumps_second(origin, first_dir, m + 1)

\* The outer flat_map of the knight's jump over first_dir, from the n-th on.
RECURSIVE knight_jumps(_, _)
knight_jumps(origin, n) ==
    IF n > Len(all_non_diagonal)
    THEN << >>
    ELSE knight_jumps_second(origin, all_non_diagonal[n], 1)
         \o knight_jumps(origin, n + 1)

\* knight_jumps(<<x, y>>, 1), computed once.
KnightJumpsTable ==
    [x \in 0..MaxCoordinate |-> [y \in 0..MaxCoordinate |-> knight_jumps(<<x, y>>, 1)]]

\* Position::from_str on the coordinates the engine itself names: the letter
\* minus 'A' and the digit minus '1'.
A1 == <<0, 0>>

B1 == <<1, 0>>

C1 == <<2, 0>>

D1 == <<3, 0>>

E1 == <<4, 0>>

F1 == <<5, 0>>

G1 == <<6, 0>>

H1 == <<7, 0>>

E8 == <<4, 7>>

\* ------------------------------------------------------------------------
\* moves.rs: the Move variants and MoveRequest
NormalMove(origin, destination, throwing) ==
    [kind |-> "NormalMove", origin |-> origin, destination |-> destination,
     throwing |-> throwing]

EnPassante(origin, destination, throwing) ==
    [kind |-> "EnPassante", origin |-> origin, destination |-> destination,
     throwing |-> throwing]

Castling(king_origin, king_destination, rook_origin, rook_destination) ==
    [kind |-> "Castling", king_origin |-> king_origin,
     king_destination |-> king_destination, rook_origin |-> rook_origin,
     rook_destination |-> rook_destination]

Promotion(origin, destination, new_piece) ==
    [kind |-> "Promotion", origin |-> origin, destination |-> destination,
     new_piece |-> new_piece]

MoveRequest(origin, destination, promotion) ==
    [origin |-> origin, destination |-> destination, promotion |-> promotion]

\* ------------------------------------------------------------------------
\* game.rs
\* The HashMap<Position, Piece> as the table of its lookups: pieces[x + 1][y + 1]
\* is get(&Position { x, y }), None for a position that is no key of the map.
\* HashMap::insert
insert(pieces, pos, piece) == [pieces EXCEPT ![pos[1] + 1][pos[2] + 1] = Some(piece)]

\* HashMap::remove
remove(pieces, pos) == [pieces EXCEPT ![pos[1] + 1][pos[2] + 1] = None]

\* The keys of the map.
keys(pieces) == {pos \in Positions : is_some(pieces[pos[1] + 1][pos[2] + 1])}

BackRank == <<Rook, Knight, Bishop, Queen, King, Bishop, Knight, Rook>>

NewGame ==
    [pieces |->
        [x \in 1..8 |->
            [y \in 1..8 |->
                CASE y = 1 -> Some(Piece(BackRank[x], White))
                  [] y = 2 -> Some(Piece(Pawn, White))
                  [] y = 7 -> Some(Piece(Pawn, Black))
                  [] y = 8 -> Some(Piece(BackRank[x], Black))
                  [] OTHER -> None]],
     last_move |-> None]

piece_at(g, pos) == g.pieces[pos[1] + 1][pos[2] + 1]

\* The destination square active_color reads from a move.
move_destination(mov) ==
    CASE mov.kind = "NormalMove" -> mov.destination
      [] mov.kind = "EnPassante" -> mov.destination
      [] mov.kind = "Castling" -> mov.king_destination
      [] mov.kind = "Promotion" -> mov.destination

active_color(g) ==
    IF is_some(g.last_move)
    THEN other(unwrap(piece_at(g, move_destination(unwrap(g.last_move)))).color)
    ELSE White

\* The failure todo!() ends perform_move with for a Promotion move.
NotImplemented == <<"not implemented">>

\* A NormalMove arm that leaves has_moved of the moving piece as it was.
perform_normal_move_unflagged(g, normal_move) ==
    LET moving_piece == unwrap(piece_at(g, normal_move.origin))
    IN  Some([pieces |-> insert(remove(g.pieces, normal_move.origin),
                                normal_move.destination, moving_piece),
              last_move |-> Some(normal_move)])

\* A NormalMove arm that sets has_moved on every piece but a pawn.
perform_normal_move_pawn_unflagged(g, normal_move) ==
    LET piece == unwrap(piece_at(g, normal_move.origin))
        moving_piece ==
            IF piece.piece_type = Pawn THEN piece ELSE [piece EXCEPT !.has_moved = TRUE]
    IN  Some([pieces |-> insert(remove(g.pieces, normal_move.origin),
                                normal_move.destination, moving_piece),
              last_move |-> Some(normal_move)])

\* The NormalMove arm of perform_move.
perform_normal_move(g, normal_move) ==
    LET moving_piece ==
            [unwrap(piece_at(g, normal_move.origin)) EXCEPT !.has_moved = TRUE]
    IN  Some([pieces |-> insert(remove(g.pieces, normal_move.origin),
                                normal_move.destination, moving_piece),
              last_move |-> Some(normal_move)])

\* An EnPassante arm that captures like a normal move, on the destination:
\* the pawn beside the origin stays.
perform_en_passante_on_destination(g, en_passante) ==
    LET moving_piece == unwrap(piece_at(g, en_passante.origin))
    IN  Some([pieces |-> insert(remove(g.pieces, en_passante.origin),
                                en_passante.destination, moving_piece),
              last_move |-> Some(en_passante)])

\* The EnPassante arm of perform_move.
\* An EnPassante arm that leaves the captured pawn on the board.
perform_en_passante_without_capture(g, en_passante) ==
    LET moving_piece == unwrap(piece_at(g, en_passante.origin))
    IN  Some([pieces |-> insert(remove(g.pieces, en_passante.origin),
                                en_passante.destination, moving_piece),
              last_move |-> Some(en_passante)])

perform_en_passante(g, en_passante) ==
    LET moving_piece == unwrap(piece_at(g, en_passante.origin))
    IN  Some([pieces |-> remove(insert(remove(g.pieces, en_passante.origin),
                                       en_passante.destination, moving_piece),
                                en_passante.throwing[1]),
              last_move |-> Some(en_passante)])

\* A Castling arm that does not record the castling as the last move.
perform_castling_unrecorded(g, castling) ==
    LET king == [unwrap(piece_at(g, castling.king_origin)) EXCEPT !.has_moved = TRUE]
        kinged == insert(remove(g.pieces, castling.king_origin),
                         castling.king_destination, king)
        rook == [unwrap(kinged[castling.rook_origin[1] + 1][castling.rook_origin[2] + 1])
                    EXCEPT !.has_moved = TRUE]
    IN  Some([pieces |-> insert(remove(kinged, castling.rook_origin),
                                castling.rook_destination, rook),
              last_move |-> g.last_move])

\* A Castling arm that leaves has_moved of the rook as it was.
perform_castling_rook_unflagged(g, castling) ==
    LET king == [unwrap(piece_at(g, castling.king_origin)) EXCEPT !.has_moved = TRUE]
        kinged == insert(remove(g.pieces, castling.king_origin),
                         castling.king_destination, king)
        rook == unwrap(kinged[castling.rook_origin[1] + 1][castling.rook_origin[2] + 1])
    IN  Some([pieces |-> insert(remove(kinged, castling.rook_origin),
                                castling.rook_destination, rook),
              last_move |-> Some(castling)])

\* The Castling arm of perform_move.
perform_castling(g, castling) ==
    LET king == [unwrap(piece_at(g, castling.king_origin)) EXCEPT !.has_moved = TRUE]
        kinged == insert(remove(g.pieces, castling.king_origin),
                         castling.king_destination, king)
        rook == [unwrap(kinged[castling.rook_origin[1] + 1][castling.rook_origin[2] + 1])
                    EXCEPT !.has_moved = TRUE]
    IN  Some([pieces |-> insert(remove(kinged, castling.rook_origin),
                                castling.rook_destination, rook),
              last_move |-> Some(castling)])

\* A perform_move that refuses a Promotion move with None.
perform_move_promotion_refused(g, mov) ==
    CASE mov.kind = "NormalMove" -> perform_normal_move(g, mov)
      [] mov.kind = "EnPassante" -> perform_en_passante(g, mov)
      [] mov.kind = "Castling" -> perform_castling(g, mov)
      [] mov.kind = "Promotion" -> None

perform_move(g, mov) ==
    CASE mov.kind = "NormalMove" -> perform_normal_move(g, mov)
      [] mov.kind = "EnPassante" -> perform_en_passante(g, mov)
      [] mov.kind = "Castling" -> perform_castling(g, mov)
      [] mov.kind = "Promotion" -> NotImplemented

\* ------------------------------------------------------------------------
\* game.rs: the check detector
abs(n) == IF n < 0 THEN -n ELSE n

\* One ray of diag_attack / straight_attack: the try_fold over
\* (1..8).filter_map(|i| king_pos.moved(dir, i)), from the n-th position on,
\* which breaks on the first occupied square with "is it an enemy piece of an
\* attacking type".
RECURSIVE ray_attack(_, _, _, _, _)
ray_attack(g, positions, n, attackers, enemy_color) ==
    IF n > Len(positions)
    THEN FALSE
    ELSE LET piece == piece_at(g, positions[n])
         IN  IF is_some(piece)
             THEN /\ unwrap(piece).piece_type \in attackers
                  /\ unwrap(piece).color = enemy_color
             ELSE ray_attack(g, positions, n + 1, attackers, enemy_color)

\* opt.and_then(|pos| pos.moved(dir, amount))
and_then_moved(opt, dir, amount) ==
    IF is_some(opt) THEN step(unwrap(opt), dir, amount) ELSE None

\* piece_at(pos).map(|piece| type and color match).unwrap_or(false)
is_enemy_piece(g, pos, piece_type, enemy_color) ==
    /\ is_some(piece_at(g, pos))
    /\ unwrap(piece_at(g, pos)).piece_type = piece_type
    /\ unwrap(piece_at(g, pos)).color = enemy_color

\* opt.and_then(|pos| piece_at(pos)).map(|piece| type and color match).unwrap_or(false)
holds_enemy(g, opt, piece_type, enemy_color) ==
    is_some(opt) /\ is_enemy_piece(g, unwrap(opt), piece_type, enemy_color)

\* The first king of the color the iteration over the map yields; unwrap()
\* of no king is the CHOOSE of no position.
king_position(g, color) ==
    CHOOSE pos \in Positions :
        /\ is_some(piece_at(g, pos))
        /\ unwrap(piece_at(g, pos)).piece_type = King
        /\ unwrap(piece_at(g, pos)).color = color

\* A detector that looks for the enemy pawns behind the king.
is_king_in_check_pawn_behind(g, color) ==
    LET king_pos == king_position(g, color)
        enemy_color == other(color)
        lines == StepsTable[7][king_pos[1]][king_pos[2]]
        jumps == KnightJumpsTable[king_pos[1]][king_pos[2]]
        diag_attack ==
            \E n \in 1..Len(all_diagonal) :
                ray_attack(g, lines[all_diagonal[n]], 1, {Bishop, Queen}, enemy_color)
        straight_attack ==
            \E n \in 1..Len(all_non_diagonal) :
                ray_attack(g, lines[all_non_diagonal[n]], 1, {Rook, Queen}, enemy_color)
        knight_attack ==
            \E n \in 1..Len(jumps) : is_enemy_piece(g, jumps[n], Knight, enemy_color)
        pawn_dir == IF color = White THEN South ELSE North
        pawn_attack ==
            \E dir \in {West, East} :
                holds_enemy(g, and_then_moved(step(king_pos, pawn_dir, 1), dir, 1),
                            Pawn, enemy_color)
        king_attack ==
            \E n \in 1..Len(all) :
                holds_enemy(g, step(king_pos, all[n], 1), King, enemy_color)
    IN  diag_attack \/ straight_attack \/ knight_attack \/ pawn_attack \/ king_attack

is_king_in_check(g, color) ==
    LET king_pos == king_position(g, color)
        enemy_color == other(color)
        lines == StepsTable[7][king_pos[1]][king_pos[2]]
        jumps == KnightJumpsTable[king_pos[1]][king_pos[2]]
        diag_attack ==
            \E n \in 1..Len(all_diagonal) :
                ray_attack(g, lines[all_diagonal[n]], 1, {Bishop, Queen}, enemy_color)
        straight_attack ==
            \E n \in 1..Len(all_non_diagonal) :
                ray_attack(g, lines[all_non_diagonal[n]], 1, {Rook, Queen}, enemy_color)
        knight_attack ==
            \E n \in 1..Len(jumps) : is_enemy_piece(g, jumps[n], Knight, enemy_color)
        pawn_dir == IF color = White THEN North ELSE South
        pawn_attack ==
            \E dir \in {West, East} :
                holds_enemy(g, and_then_moved(step(king_pos, pawn_dir, 1), dir, 1),
                            Pawn, enemy_color)
        king_attack ==
            \E n \in 1..Len(all) :
                holds_enemy(g, step(king_pos, all[n], 1), King, enemy_color)
    IN  diag_attack \/ straight_attack \/ knight_attack \/ pawn_attack \/ king_attack

\* ------------------------------------------------------------------------
\* moves.rs: the move generator
is_valid_destination(destination, color, g) ==
    IF is_some(piece_at(g, destination))
    THEN color # unwrap(piece_at(g, destination)).color
    ELSE TRUE

\* An is_enemy_at_destination that never sees an enemy.
is_enemy_never(destination, color, g) == FALSE

is_enemy_at_destination(destination, color, g) ==
    IF is_some(piece_at(g, destination))
    THEN color # unwrap(piece_at(g, destination)).color
    ELSE FALSE

\* The try_fold of destinations for one direction, from the n-th position on:
\* positions are pushed until a friendly piece (break before it) or an enemy
\* piece (break after it).
RECURSIVE ray(_, _, _, _, _)
ray(positions, n, color, acc, g) ==
    IF n > Len(positions)
    THEN acc
    ELSE IF ~is_valid_destination(positions[n], color, g)
    THEN acc
    ELSE IF is_enemy_at_destination(positions[n], color, g)
    THEN Append(acc, positions[n])
    ELSE ray(positions, n + 1, color, Append(acc, positions[n]), g)

\* The flat_map of destinations over the directions, from the n-th on.
RECURSIVE rays(_, _, _, _, _)
rays(origin, directions, n, max_steps, g) ==
    IF n > Len(directions)
    THEN << >>
    ELSE ray(StepsTable[max_steps][origin[1]][origin[2]][directions[n]], 1,
             unwrap(piece_at(g, origin)).color, << >>, g)
         \o rays(origin, directions, n + 1, max_steps, g)

destinations(origin, directions, max_steps, g) ==
    SelectSeq(rays(origin, directions, 1, max_steps, g),
              LAMBDA pos : is_valid_destination(pos, unwrap(piece_at(g, origin)).color, g))

knight_destinations(origin, g) ==
    SelectSeq(KnightJumpsTable[origin[1]][origin[2]],
              LAMBDA pos : is_valid_destination(pos, unwrap(piece_at(g, origin)).color, g))

\* A wrap_as_normal that records no captured piece.
wrap_as_normal_without_captured(positions, origin, g) ==
    [n \in 1..Len(positions) |-> NormalMove(origin, positions[n], None)]

wrap_as_normal(positions, origin, g) ==
    [n \in 1..Len(positions) |->
        NormalMove(origin, positions[n], piece_at(g, positions[n]))]

\* A castling_left that names the square beside the corner as the rook's
\* origin.
castling_left_rook_beside_corner(origin, g) ==
    IF is_some(piece_at(g, unwrap(step(origin, West, 1)))) THEN None
    ELSE IF is_some(piece_at(g, unwrap(step(origin, West, 2)))) THEN None
    ELSE IF is_some(piece_at(g, unwrap(step(origin, West, 3)))) THEN None
    ELSE LET corner == piece_at(g, unwrap(step(origin, West, 4)))
         IN  IF /\ is_some(corner)
                /\ unwrap(corner).piece_type = Rook
                /\ ~unwrap(corner).has_moved
             THEN Some(Castling(origin,
                                unwrap(step(origin, West, 2)),
                                unwrap(step(origin, West, 3)),
                                unwrap(step(origin, West, 1))))
             ELSE None

castling_left(origin, g) ==
    IF is_some(piece_at(g, unwrap(step(origin, West, 1)))) THEN None
    ELSE IF is_some(piece_at(g, unwrap(step(origin, West, 2)))) THEN None
    ELSE IF is_some(piece_at(g, unwrap(step(origin, West, 3)))) THEN None
    ELSE LET corner == piece_at(g, unwrap(step(origin, West, 4)))
         IN  IF /\ is_some(corner)
                /\ unwrap(corner).piece_type = Rook
                /\ ~unwrap(corner).has_moved
             THEN Some(Castling(origin,
                                unwrap(step(origin, West, 2)),
                                unwrap(step(origin, West, 4)),
                                unwrap(step(origin, West, 1))))
             ELSE None

\* A castling_right that accepts a rook that has moved.
castling_right_any_rook(origin, g) ==
    IF is_some(piece_at(g, unwrap(step(origin, East, 1)))) THEN None
    ELSE IF is_some(piece_at(g, unwrap(step(origin, East, 2)))) THEN None
    ELSE LET corner == piece_at(g, unwrap(step(origin, East, 3)))
         IN  IF /\ is_some(corner)
                /\ unwrap(corner).piece_type = Rook
             THEN Some(Castling(origin,
                                unwrap(step(origin, East, 2)),
                                unwrap(step(origin, East, 3)),
                                unwrap(step(origin, East, 1))))
             ELSE None

castling_right(origin, g) ==
    IF is_some(piece_at(g, unwrap(step(origin, East, 1)))) THEN None
    ELSE IF is_some(piece_at(g, unwrap(step(origin, East, 2)))) THEN None
    ELSE LET corner == piece_at(g, unwrap(step(origin, East, 3)))
         IN  IF /\ is_some(corner)
                /\ unwrap(corner).piece_type = Rook
                /\ ~unwrap(corner).has_moved
             THEN Some(Castling(origin,
                                unwrap(step(origin, East, 2)),
                                unwrap(step(origin, East, 3)),
                                unwrap(step(origin, East, 1))))
             ELSE None

\* A castling_destinations that does not look at the king's has_moved.
castling_destinations_by_square(origin, g) ==
    LET king == unwrap(piece_at(g, origin))
        expected_pos == IF king.color = White THEN E1 ELSE E8
    IN  IF expected_pos # origin
        THEN << >>
        ELSE castling_left(origin, g) \o castling_right(origin, g)

castling_destinations(origin, g) ==
    LET king == unwrap(piece_at(g, origin))
        expected_pos == IF king.color = White THEN E1 ELSE E8
    IN  IF king.has_moved
        THEN << >>
        ELSE IF expected_pos # origin
        THEN << >>
        ELSE castling_left(origin, g) \o castling_right(origin, g)

\* A first block without the double step.
pawn_single_step(origin, g) ==
    LET color == unwrap(piece_at(g, origin)).color
        dir == IF color = White THEN North ELSE South
        one_step_forward == step(origin, dir, 1)
    IN  IF is_some(one_step_forward) /\ ~is_some(piece_at(g, unwrap(one_step_forward)))
        THEN <<NormalMove(origin, unwrap(one_step_forward), None)>>
        ELSE << >>

\* The first block of pawn_destinations: the single and the double step.
pawn_steps(origin, g) ==
    LET color == unwrap(piece_at(g, origin)).color
        has_moved == unwrap(piece_at(g, origin)).has_moved
        dir == IF color = White THEN North ELSE South
        one_step_forward == step(origin, dir, 1)
        two_step_forward == step(origin, dir, 2)
    IN  IF is_some(one_step_forward) /\ ~is_some(piece_at(g, unwrap(one_step_forward)))
        THEN <<NormalMove(origin, unwrap(one_step_forward), None)>>
             \o (IF /\ ~has_moved
                    /\ is_some(two_step_forward)
                    /\ ~is_some(piece_at(g, unwrap(two_step_forward)))
                 THEN <<NormalMove(origin, unwrap(two_step_forward), None)>>
                 ELSE << >>)
        ELSE << >>

\* A capture round that does not look at the color of the piece it takes.
pawn_capture_any_color(origin, side_dir, g) ==
    LET color == unwrap(piece_at(g, origin)).color
        dir == IF color = White THEN North ELSE South
        forward_and_side == and_then_moved(step(origin, dir, 1), side_dir, 1)
    IN  IF /\ is_some(forward_and_side)
           /\ is_some(piece_at(g, unwrap(forward_and_side)))
        THEN <<NormalMove(origin, unwrap(forward_and_side),
                          piece_at(g, unwrap(forward_and_side)))>>
        ELSE << >>

\* One round of the second loop of pawn_destinations: the diagonal capture.
pawn_capture(origin, side_dir, g) ==
    LET color == unwrap(piece_at(g, origin)).color
        dir == IF color = White THEN North ELSE South
        forward_and_side == and_then_moved(step(origin, dir, 1), side_dir, 1)
    IN  IF /\ is_some(forward_and_side)
           /\ is_some(piece_at(g, unwrap(forward_and_side)))
           /\ unwrap(piece_at(g, unwrap(forward_and_side))).color # color
        THEN <<NormalMove(origin, unwrap(forward_and_side),
                          piece_at(g, unwrap(forward_and_side)))>>
        ELSE << >>

\* An en passant round that does not ask how far the last move went.
pawn_en_passante_any_distance(origin, side_dir, g) ==
    LET color == unwrap(piece_at(g, origin)).color
        dir == IF color = White THEN North ELSE South
        side_pos == step(origin, side_dir, 1)
    IN  IF ~is_some(side_pos) \/ ~is_some(piece_at(g, unwrap(side_pos)))
        THEN << >>
        ELSE LET piece == unwrap(piece_at(g, unwrap(side_pos)))
             IN  IF piece.piece_type # Pawn \/ piece.color = color
                 THEN << >>
                 ELSE LET last == unwrap(g.last_move)
                      IN  IF /\ last.kind = "NormalMove"
                             /\ last.destination = unwrap(side_pos)
                          THEN <<EnPassante(origin,
                                            unwrap(step(unwrap(side_pos), dir, 1)),
                                            <<unwrap(side_pos), piece>>)>>
                          ELSE << >>

\* One round of the third loop of pawn_destinations: en passant.
pawn_en_passante(origin, side_dir, g) ==
    LET color == unwrap(piece_at(g, origin)).color
        dir == IF color = White THEN North ELSE South
        side_pos == step(origin, side_dir, 1)
    IN  IF ~is_some(side_pos) \/ ~is_some(piece_at(g, unwrap(side_pos)))
        THEN << >>
        ELSE LET piece == unwrap(piece_at(g, unwrap(side_pos)))
             IN  IF piece.piece_type # Pawn \/ piece.color = color
                 THEN << >>
                 ELSE LET last == unwrap(g.last_move)
                      IN  IF /\ last.kind = "NormalMove"
                             /\ last.destination = unwrap(side_pos)
                             /\ abs(last.destination[2] - last.origin[2]) = 2
                          THEN <<EnPassante(origin,
                                            unwrap(step(unwrap(side_pos), dir, 1)),
                                            <<unwrap(side_pos), piece>>)>>
                          ELSE << >>

pawn_destinations(origin, g) ==
    pawn_steps(origin, g)
    \o pawn_capture(origin, West, g) \o pawn_capture(origin, East, g)
    \o pawn_en_passante(origin, West, g) \o pawn_en_passante(origin, East, g)

\* The match of valid_destinations_with_special_cases: the candidates of the
\* piece's movement pattern, before the legality filter.
candidates(origin, piece, g) ==
    CASE piece.piece_type = King ->
            wrap_as_normal(destinations(origin, all, 1, g), origin, g)
            \o castling_destinations(origin, g)
      [] piece.piece_type = Queen ->
            wrap_as_normal(destinations(origin, all, 7, g), origin, g)
      [] piece.piece_type = Rook ->
            wrap_as_normal(destinations(origin, all_non_diagonal, 7, g), origin, g)
      [] piece.piece_type = Bishop ->
            wrap_as_normal(destinations(origin, all_diagonal, 7, g), origin, g)
      [] piece.piece_type = Knight ->
            wrap_as_normal(knight_destinations(origin, g), origin, g)
      [] piece.piece_type = Pawn -> pawn_destinations(origin, g)

\* A filter closure that keeps every candidate.
keeps_king_safe_always(g, mov, color) == TRUE

\* A filter closure that looks for check in the position before the move.
keeps_king_safe_before_move(g, mov, color) == ~is_king_in_check(g, color)

\* The closure of the legality filter: the move, applied to a copy, leaves
\* the mover's king out of check.
keeps_king_safe(g, mov, color) == ~is_king_in_check(unwrap(perform_move(g, mov)), color)

\* The candidates without the legality filter.
candidates_unfiltered(origin, g) ==
    IF ~is_some(piece_at(g, origin))
    THEN << >>
    ELSE candidates(origin, unwrap(piece_at(g, origin)), g)

valid_destinations_with_special_cases(origin, g) ==
    IF ~is_some(piece_at(g, origin))
    THEN << >>
    ELSE LET piece == unwrap(piece_at(g, origin))
         IN  SelectSeq(candidates(origin, piece, g),
                       LAMBDA mov : keeps_king_safe(g, mov, piece.color))

valid_destinations(origin, g) ==
    LET moves == valid_destinations_with_special_cases(origin, g)
    IN  [n \in 1..Len(moves) |-> move_destination(moves[n])]

\* The filter closure of MoveRequest::to_move.
matches(req, mov) ==
    CASE mov.kind = "NormalMove" ->
            mov.origin = req.origin /\ mov.destination = req.destination
      [] mov.kind = "EnPassante" ->
            mov.origin = req.origin /\ mov.destination = req.destination
      [] mov.kind = "Castling" ->
            mov.king_origin = req.origin /\ mov.king_destination = req.destination
      [] mov.kind = "Promotion" ->
            /\ mov.origin = req.origin
            /\ mov.destination = req.destination
            /\ Some(mov.new_piece) = req.promotion

\* The filter and next() of MoveRequest::to_move over the legal moves of the
\* request's origin.
to_move_among(req, moves) ==
    LET found == SelectSeq(moves, LAMBDA mov : matches(req, mov))
    IN  IF found = << >> THEN None ELSE Some(Head(found))

to_move(req, g) ==
    to_move_among(req, valid_destinations_with_special_cases(req.origin, g))

\* A perform_move_request that does not ask whose turn it is.
perform_move_request_any_color(g, move_req, moves) ==
    IF ~is_some(piece_at(g, move_req.origin))
    THEN None
    ELSE LET mov == to_move_among(move_req, moves)
         IN  IF is_some(mov) THEN perform_move(g, unwrap(mov)) ELSE None

\* A perform_move_request that puts the piece named by the request's promotion
\* field on the destination of the move it performs.
perform_move_request_promoting(g, move_req, moves) ==
    IF \/ ~is_some(piece_at(g, move_req.origin))
       \/ unwrap(piece_at(g, move_req.origin)).color # active_color(g)
    THEN None
    ELSE LET mov == to_move_among(move_req, moves)
         IN  IF ~is_some(mov)
             THEN None
             ELSE IF ~is_some(move_req.promotion)
             THEN perform_move(g, unwrap(mov))
             ELSE LET moved_game == unwrap(perform_move(g, unwrap(mov)))
                  IN  Some([moved_game EXCEPT
                               !.pieces = insert(moved_game.pieces,
                                                 move_destination(unwrap(mov)),
                                                 unwrap(move_req.promotion))])

\* perform_move_request, given the legal moves of the request's origin.
perform_move_request_among(g, move_req, moves) ==
    IF \/ ~is_some(piece_at(g, move_req.origin))
       \/ unwrap(piece_at(g, move_req.origin)).color # active_color(g)
    THEN None
    ELSE LET mov == to_move_among(move_req, moves)
         IN  IF is_some(mov) THEN perform_move(g, unwrap(mov)) ELSE None

perform_move_request(g, move_req) ==
    perform_move_request_among(g, move_req,
        valid_destinations_with_special_cases(move_req.origin, g))

\* A winner that is declared only when the active king is in check.
winner_by_checkmate(g) ==
    LET active == active_color(g)
    IN  IF /\ is_king_in_check(g, active)
           /\ \A pos \in keys(g.pieces) :
                  unwrap(piece_at(g, pos)).color = active
                      => Len(valid_destinations(pos, g)) = 0
        THEN Some(other(active))
        ELSE None

\* A winner that is declared as soon as the active king is in check.
winner_when_in_check(g) ==
    LET active == active_color(g)
    IN  IF is_king_in_check(g, active) THEN Some(other(active)) ELSE None

\* A winner that is declared as soon as one piece of the active color has no
\* legal move.
winner_any_stuck_piece(g) ==
    LET active == active_color(g)
    IN  IF \E pos \in keys(g.pieces) :
               /\ unwrap(piece_at(g, pos)).color = active
               /\ Len(valid_destinations(pos, g)) = 0
        THEN Some(other(active))
        ELSE None

winner(g) ==
    LET active == active_color(g)
    IN  IF \A pos \in keys(g.pieces) :
               unwrap(piece_at(g, pos)).color = active
                   => Len(valid_destinations(pos, g)) = 0
        THEN Some(other(active))
        ELSE None

\* ------------------------------------------------------------------------
\* The games played before exploration starts: each is the list of requests
\* <<origin, destination>> handed, in order, to try_move from Game::new().
\* Black to move can mate with the queen from D8 to H4.
\*   f2f3 e7e5 g2g4
FoolsMateOpening ==
    << <<<<5, 1>>, <<5, 2>>>>,
       <<<<4, 6>>, <<4, 4>>>>,
       <<<<6, 1>>, <<6, 3>>>> >>

\* White to move can take Black's last legal move away with the queen from C8
\* to E6, without giving check.
\*   e2e3 a7a5 d1h5 a8a6 h5a5 h7h5 h2h4 a6h6 a5c7 f7f6 c7d7 e8f7 d7b7 d8d3 b7b8 d3h7 b8c8 f7g6
StalemateOpening ==
    << <<<<4, 1>>, <<4, 2>>>>,
       <<<<0, 6>>, <<0, 4>>>>,
       <<<<3, 0>>, <<7, 4>>>>,
       <<<<0, 7>>, <<0, 5>>>>,
       <<<<7, 4>>, <<0, 4>>>>,
       <<<<7, 6>>, <<7, 4>>>>,
       <<<<7, 1>>, <<7, 3>>>>,
       <<<<0, 5>>, <<7, 5>>>>,
       <<<<0, 4>>, <<2, 6>>>>,
       <<<<5, 6>>, <<5, 5>>>>,
       <<<<2, 6>>, <<3, 6>>>>,
       <<<<4, 7>>, <<5, 6>>>>,
       <<<<3, 6>>, <<1, 6>>>>,
       <<<<3, 7>>, <<3, 2>>>>,
       <<<<1, 6>>, <<1, 7>>>>,
       <<<<3, 2>>, <<7, 6>>>>,
       <<<<1, 7>>, <<2, 7>>>>,
       <<<<5, 6>>, <<6, 5>>>> >>

\* The last move is Black's double step D7 to D5, beside (West of) the White
\* \* pawn on E5.
\*   e2e4 a7a6 e4e5 d7d5
EnPassanteWhiteOpening ==
    << <<<<4, 1>>, <<4, 3>>>>,
       <<<<0, 6>>, <<0, 5>>>>,
       <<<<4, 3>>, <<4, 4>>>>,
       <<<<3, 6>>, <<3, 4>>>> >>

\* The last move is White's double step E2 to E4, beside (East of) the Black
\* \* pawn on D4.
\*   h2h3 d7d5 h3h4 d5d4 e2e4
EnPassanteBlackOpening ==
    << <<<<7, 1>>, <<7, 2>>>>,
       <<<<3, 6>>, <<3, 4>>>>,
       <<<<7, 2>>, <<7, 3>>>>,
       <<<<3, 4>>, <<3, 3>>>>,
       <<<<4, 1>>, <<4, 3>>>> >>

\* Black to move can bring the pawn on D6 beside the White pawn on E5 by a
\* \* single step, or the pawn on F7 beside it by a double step.
\*   e2e4 d7d6 e4e5
SingleStepOpening ==
    << <<<<4, 1>>, <<4, 3>>>>,
       <<<<3, 6>>, <<3, 5>>>>,
       <<<<4, 3>>, <<4, 4>>>> >>

\* Both kings and all four rooks are unmoved and every square between them
\* \* is empty.
\*   g1f3 g8f6 g2g3 g7g6 f1g2 f8g7 d2d4 d7d5 b1c3 b8c6 c1f4 c8f5 d1d2 d8d7
CastlingOpening ==
    << <<<<6, 0>>, <<5, 2>>>>,
       <<<<6, 7>>, <<5, 5>>>>,
       <<<<6, 1>>, <<6, 2>>>>,
       <<<<6, 6>>, <<6, 5>>>>,
       <<<<5, 0>>, <<6, 1>>>>,
       <<<<5, 7>>, <<6, 6>>>>,
       <<<<3, 1>>, <<3, 3>>>>,
       <<<<3, 6>>, <<3, 4>>>>,
       <<<<1, 0>>, <<2, 2>>>>,
       <<<<1, 7>>, <<2, 5>>>>,
       <<<<2, 0>>, <<5, 3>>>>,
       <<<<2, 7>>, <<5, 4>>>>,
       <<<<3, 0>>, <<3, 1>>>>,
       <<<<3, 7>>, <<3, 6>>>> >>

\* White's king has left E1 for F1 and can return; Black's rook has left H8
\* \* for G8 and has returned, the king on E8 unmoved.
\*   e2e3 e7e6 f1e2 f8e7 g1f3 g8f6 h2h3 h8g8 e1f1 g8h8
ReturnOpening ==
    << <<<<4, 1>>, <<4, 2>>>>,
       <<<<4, 6>>, <<4, 5>>>>,
       <<<<5, 0>>, <<4, 1>>>>,
       <<<<5, 7>>, <<4, 6>>>>,
       <<<<6, 0>>, <<5, 2>>>>,
       <<<<6, 7>>, <<5, 5>>>>,
       <<<<7, 1>>, <<7, 2>>>>,
       <<<<7, 7>>, <<6, 7>>>>,
       <<<<4, 0>>, <<5, 0>>>>,
       <<<<6, 7>>, <<7, 7>>>> >>

\* Black to move is in check from the queen on H5.
\*   e2e3 f7f6 d1h5
CheckOpening ==
    << <<<<4, 1>>, <<4, 2>>>>,
       <<<<5, 6>>, <<5, 5>>>>,
       <<<<3, 0>>, <<7, 4>>>> >>

\* White to move is in check from the knight on F3, which also attacks G1;
\* the knight on E3 attacks D1 and F1. Both white rooks and the king have
\* not moved and the squares between them are empty.
\*   b1a3 b8c6 g1h3 c6d4 b2b3 g8f6 c1b2 f6g4 g2g3 g4e3 f1g2 a7a6 c2c3 h7h6
\*   d1c2 d4f3
CastlingUnderAttackOpening ==
    << <<<<1, 0>>, <<0, 2>>>>,
       <<<<1, 7>>, <<2, 5>>>>,
       <<<<6, 0>>, <<7, 2>>>>,
       <<<<2, 5>>, <<3, 3>>>>,
       <<<<1, 1>>, <<1, 2>>>>,
       <<<<6, 7>>, <<5, 5>>>>,
       <<<<2, 0>>, <<1, 1>>>>,
       <<<<5, 5>>, <<6, 3>>>>,
       <<<<6, 1>>, <<6, 2>>>>,
       <<<<6, 3>>, <<4, 2>>>>,
       <<<<5, 0>>, <<6, 1>>>>,
       <<<<0, 6>>, <<0, 5>>>>,
       <<<<2, 1>>, <<2, 2>>>>,
       <<<<7, 6>>, <<7, 5>>>>,
       <<<<3, 0>>, <<2, 1>>>>,
       <<<<3, 3>>, <<5, 2>>>> >>

\* Black to move is in check from the pawn on E6, which stands one step South
\* and one step West of the king on F7.
\*   e2e4 f7f6 e4e5 e8f7 e5e6
PawnCheckOpening ==
    << <<<<4, 1>>, <<4, 3>>>>,
       <<<<5, 6>>, <<5, 5>>>>,
       <<<<4, 3>>, <<4, 4>>>>,
       <<<<4, 7>>, <<5, 6>>>>,
       <<<<4, 4>>, <<4, 5>>>> >>

\* CheckOpening followed by two requests perform_move_request refuses: Black,
\* in check from the queen on H5, asks for a7a6, and White, whose turn it is
\* not, asks for the queen to take the king on E8.
\*   e2e3 f7f6 d1h5 (a7a6) (h5e8)
IgnoredCheckRequests ==
    CheckOpening \o << <<<<0, 6>>, <<0, 5>>>>, <<<<7, 4>>, <<4, 7>>>> >>

\* White to move has a pawn on B7, one rank before the last: the knight on B8
\* blocks its step, C8 is empty and the rook on A8 can be taken.
\*   a2a4 b7b5 a4b5 a7a6 b5a6 c8b7 a6b7 h7h6
LastRankOpening ==
    << <<<<0, 1>>, <<0, 3>>>>,
       <<<<1, 6>>, <<1, 4>>>>,
       <<<<0, 3>>, <<1, 4>>>>,
       <<<<0, 6>>, <<0, 5>>>>,
       <<<<1, 4>>, <<0, 5>>>>,
       <<<<2, 7>>, <<1, 6>>>>,
       <<<<0, 5>>, <<1, 6>>>>,
       <<<<7, 6>>, <<7, 5>>>> >>

\* White to move has a pawn on A8, the last rank, which took the rook there.
\*   a2a4 b7b5 a4b5 a7a6 b5a6 c8b7 a6b7 h7h6 b7a8 h6h5
PawnOnLastRankOpening ==
    LastRankOpening \o << <<<<1, 6>>, <<0, 7>>>>, <<<<7, 5>>, <<7, 4>>>> >>

\* White to move is checkmated by the queen on H4.
\*   f2f3 e7e5 g2g4 d8h4
CheckmateOpening == FoolsMateOpening \o << <<<<3, 7>>, <<7, 3>>>> >>

\* Black to move is not in check and has no legal move.
\*   ... b8c8 f7g6 c8e6
StalemateReachedOpening == StalemateOpening \o << <<<<2, 7>>, <<4, 5>>>> >>

Openings ==
    { << >>, FoolsMateOpening, StalemateOpening, EnPassanteWhiteOpening,
      EnPassanteBlackOpening, SingleStepOpening, CastlingOpening, ReturnOpening,
      CheckOpening, CastlingUnderAttackOpening, PawnCheckOpening,
      IgnoredCheckRequests, LastRankOpening, PawnOnLastRankOpening,
      CheckmateOpening, StalemateReachedOpening }

\* try_move_handler: the request is built with promotion None; an accepted
\* request replaces the game, a rejected one leaves it.
try_move(g, origin, destination) ==
    LET new_game == perform_move_request(g, MoveRequest(origin, destination, None))
    IN  IF is_some(new_game) THEN unwrap(new_game) ELSE g

\* The game after the requests, each game computed before the next request is
\* handed to it.
RECURSIVE Play(_, _)
Play(g, requests) ==
    IF requests = << >>
    THEN g
    ELSE CHOOSE final \in
            {Play(next, Tail(requests)) :
                next \in {try_move(g, Head(requests)[1], Head(requests)[2])}} : TRUE

\* The number of accepted requests explored after an opening.
MaxPly == 1

\* No function has been called.
NoCall == [op |-> "none", args |-> << >>]

NoOutcome == [kind |-> "none", value |-> << >>]

Init ==
    /\ game \in {Play(NewGame, opening) : opening \in Openings}
    /\ ply = 0
    /\ call = NoCall
    /\ outcome = NoOutcome

\* try_move_handler with a request perform_move_request accepts: the new game
\* replaces the old one. moves is the list of legal moves of the origin, which
\* MoveAccepted computes once for all the destinations it tries.
Accept(origin, destination, moves) ==
    LET new_game ==
            perform_move_request_among(game, MoveRequest(origin, destination, None), moves)
    IN  /\ is_some(new_game)
        /\ game' = unwrap(new_game)
        /\ ply' = ply + 1
        /\ UNCHANGED <<call, outcome>>

MoveAccepted ==
    /\ ply < MaxPly
    /\ \E origin \in Positions :
        \E moves \in {valid_destinations_with_special_cases(origin, game)} :
            \E destination \in Positions : Accept(origin, destination, moves)

\* try_move_handler with a request perform_move_request answers None: the game
\* stays as it is.
MoveRejected ==
    /\ (\E origin \in Positions, destination \in Positions :
            ~is_some(perform_move_request(game, MoveRequest(origin, destination, None))))
       = TRUE
    /\ UNCHANGED vars

Next == MoveAccepted \/ MoveRejected

Spec == Init /\ [][Next]_vars

\* ------------------------------------------------------------------------
\* The functions of the engine called on their own, once, with arguments of
\* their types, on the game of Game::new().
U8 == 0..U8Max

I8 == I8Min..I8Max

\* The chars texts are made of: the letters A to H and the digits 1 to 8,
\* their neighbours '0', '9', '@' and 'I', the lower-case 'a' and 'h', and
\* the chars U+0131 and U+0141 of two bytes, whose low eight bits are those
\* of '1' and 'A'.
Chars == (CharA..(CharA + 7)) \cup (Char1..(Char1 + 7))
         \cup {Char1 - 1, Char1 + 8, CharA - 1, CharA + 8, 97, 104, 305, 321}

MaxTextLen == 3

Texts == UNION {[1..k -> Chars] : k \in 0..MaxTextLen}

\* The pieces a Promotion move names.
PromotionPieces == {Piece(piece_type, color) : piece_type \in {Queen, Knight}, color \in Colors}

InitCalls ==
    /\ game = NewGame
    /\ ply = 0
    /\ call = NoCall
    /\ outcome = NoOutcome

CallNewChecked ==
    /\ call = NoCall
    /\ \E x \in U8, y \in U8 :
        /\ call' = [op |-> "new_checked", args |-> <<x, y>>]
        /\ outcome' = Returned(new_checked(x, y))
    /\ UNCHANGED <<game, ply>>

CallNew ==
    /\ call = NoCall
    /\ \E x \in U8, y \in U8 :
        /\ call' = [op |-> "new", args |-> <<x, y>>]
        /\ outcome' = new(x, y)
    /\ UNCHANGED <<game, ply>>

CallFromStr ==
    /\ call = NoCall
    /\ \E text \in Texts :
        /\ call' = [op |-> "from_str", args |-> <<text>>]
        /\ outcome' = from_str(text)
    /\ UNCHANGED <<game, ply>>

CallMoved ==
    /\ call = NoCall
    /\ \E pos \in Positions, dir \in Directions, amount \in I8 :
        /\ call' = [op |-> "moved", args |-> <<pos, dir, amount>>]
        /\ outcome' = Returned(moved(pos, dir, amount))
    /\ UNCHANGED <<game, ply>>

\* perform_move with a Promotion move, which no function of the engine
\* builds: it is a caller of the public perform_move that passes one.
CallPerformMove ==
    /\ call = NoCall
    /\ \E origin \in keys(game.pieces), destination \in Positions,
          new_piece \in PromotionPieces :
        \E result \in {perform_move(game, Promotion(origin, destination, new_piece))} :
            /\ call' = [op |-> "perform_move",
                        args |-> <<Promotion(origin, destination, new_piece)>>]
            /\ outcome' = IF result = None
                          THEN Returned(None)
                          ELSE IF result = NotImplemented
                          THEN Panicked
                          ELSE Returned(result)
    /\ UNCHANGED <<game, ply>>

NextCalls == CallNewChecked \/ CallNew \/ CallFromStr \/ CallMoved \/ CallPerformMove

SpecCalls == InitCalls /\ [][NextCalls]_vars

\* ------------------------------------------------------------------------
\* The game in which both sides only ever move a knight out of its home
\* square and back: the requests <<origin, destination>> handed to try_move
\* from Game::new(), for as long as the players like.
KnightOutRequests ==
    { <<<<1, 0>>, <<0, 2>>>>, <<<<1, 0>>, <<2, 2>>>>,
      <<<<6, 0>>, <<5, 2>>>>, <<<<6, 0>>, <<7, 2>>>>,
      <<<<1, 7>>, <<0, 5>>>>, <<<<1, 7>>, <<2, 5>>>>,
      <<<<6, 7>>, <<5, 5>>>>, <<<<6, 7>>, <<7, 5>>>> }

KnightBackRequests == {<<request[2], request[1]>> : request \in KnightOutRequests}

InitShuffle ==
    /\ game = NewGame
    /\ ply = 0
    /\ call = NoCall
    /\ outcome = NoOutcome

\* try_move_handler with an accepted request that moves a knight out.
KnightOut ==
    \E request \in KnightOutRequests :
        \E new_game \in {perform_move_request(game,
                             MoveRequest(request[1], request[2], None))} :
            /\ is_some(new_game)
            /\ game' = unwrap(new_game)
            /\ UNCHANGED <<ply, call, outcome>>

\* try_move_handler with an accepted request that moves a knight back.
KnightBack ==
    \E request \in KnightBackRequests :
        \E new_game \in {perform_move_request(game,
                             MoveRequest(request[1], request[2], None))} :
            /\ is_some(new_game)
            /\ game' = unwrap(new_game)
            /\ UNCHANGED <<ply, call, outcome>>

NextShuffle == KnightOut \/ KnightBack

\* The players never stop asking for a move while one of these is accepted.
SpecShuffle == InitShuffle /\ [][NextShuffle]_vars /\ WF_vars(NextShuffle)

\* ------------------------------------------------------------------------
\* Properties

\* The elements of a Vec.
Range(seq) == {seq[n] : n \in 1..Len(seq)}

\* The promotion fields a request is given.
PromotionInputs == {Some(Piece(Queen, White)), Some(Piece(Knight, Black))}

\* The color of the piece that made the last move.
LastMover == unwrap(piece_at(game, move_destination(unwrap(game.last_move)))).color

\* A square holding a piece of the given color.
holds_color(g, pos, color) ==
    is_some(piece_at(g, pos)) /\ unwrap(piece_at(g, pos)).color = color

\* C1: in every reachable state, for every origin holding a piece of the
\* active color, every destination of valid_destinations(origin) leads, when
\* the request is performed, to a state where the mover's king is not in
\* check; and the color that made the last move is not in check.
C1_MoverNotInCheck ==
    /\ is_some(game.last_move) => ~is_king_in_check(game, LastMover)
    /\ \A origin \in Positions :
           holds_color(game, origin, active_color(game)) =>
               \A moves \in {valid_destinations_with_special_cases(origin, game)} :
                   \A n \in 1..Len(moves) :
                       LET result == perform_move_request_among(game,
                                         MoveRequest(origin, move_destination(moves[n]), None),
                                         moves)
                       IN  /\ is_some(result)
                           /\ ~is_king_in_check(unwrap(result), active_color(game))

\* Black, in check from the queen on H5 with the king's diagonal open, has
\* answered with the pawn from G7 to G6.
C1_Witness ==
    /\ game.last_move = Some(NormalMove(<<6, 6>>, <<6, 5>>, None))
    /\ piece_at(game, <<7, 4>>) = Some([Piece(Queen, White) EXCEPT !.has_moved = TRUE])
    /\ ~is_some(piece_at(game, <<5, 6>>))
    /\ ~is_king_in_check(game, Black)

\* C2: always, perform_move_request returns a game exactly for the requests
\* whose origin holds a piece of the active color and whose destination is
\* among valid_destinations(origin); every other request gets the one empty
\* result None; and the promotion field of the request changes nothing.
C2_AcceptedIffValid ==
    [](\A origin \in Positions :
        \A moves \in {valid_destinations_with_special_cases(origin, game)} :
            \A valid \in {Range(valid_destinations(origin, game))} :
                \A own \in {holds_color(game, origin, active_color(game))} :
                    \A destination \in Positions :
                        \A result \in {perform_move_request_among(game,
                                           MoveRequest(origin, destination, None), moves)} :
                            /\ is_some(result) <=> (own /\ destination \in valid)
                            /\ ~(own /\ destination \in valid) => result = None
                            /\ \A promotion \in PromotionInputs :
                                   perform_move_request_among(game,
                                       MoveRequest(origin, destination, promotion), moves)
                                   = result)

\* In the initial position the request E2 to E4 with a promotion piece is
\* accepted, and the request E7 to E5, for the side not to move, is not.
C2_Witness ==
    /\ game = NewGame
    /\ is_some(perform_move_request(game,
            MoveRequest(<<4, 1>>, <<4, 3>>, Some(Piece(Queen, White)))))
    /\ <<4, 4>> \in Range(valid_destinations(<<4, 6>>, game))
    /\ ~is_some(perform_move_request(game, MoveRequest(<<4, 6>>, <<4, 4>>, None)))

\* C3: White is to move in Game::new(); the piece on the destination of
\* last_move always exists; and every accepted request hands the move to the
\* other color.
C3_TurnsAlternate ==
    /\ [](/\ ~is_some(game.last_move) => active_color(game) = White
          /\ is_some(game.last_move) =>
                is_some(piece_at(game, move_destination(unwrap(game.last_move)))))
    /\ [][game' # game => active_color(game') = other(active_color(game))]_vars

\* Black is to move after White's castling.
C3_Witness ==
    /\ is_some(game.last_move)
    /\ unwrap(game.last_move).kind = "Castling"
    /\ active_color(game) = Black

\* C4: in the initial position the pawn on A2 can go to exactly A3 and A4,
\* and the knight on B1 to exactly A3 and C3.
C4_InitialDestinations ==
    game = NewGame =>
        /\ Range(valid_destinations(<<0, 1>>, game)) = {<<0, 2>>, <<0, 3>>}
        /\ Range(valid_destinations(<<1, 0>>, game)) = {<<0, 2>>, <<2, 2>>}

C4_Witness ==
    /\ game = NewGame
    /\ Len(valid_destinations(<<0, 1>>, game)) = 2
    /\ Len(valid_destinations(<<1, 0>>, game)) = 2

\* The squares holding a king of the given color.
king_squares(g, color) ==
    {pos \in keys(g.pieces) :
        /\ unwrap(piece_at(g, pos)).piece_type = King
        /\ unwrap(piece_at(g, pos)).color = color}

\* The Castling moves among a Vec of moves.
castlings(moves) == {mov \in Range(moves) : mov.kind = "Castling"}

\* C5: always, no Castling move is among the candidates generated for a king
\* whose has_moved is true, wherever it stands; and a king whose has_moved is
\* true has it true in every later state.
C5_MovedKingNeverCastles ==
    /\ [](\A pos \in keys(game.pieces) :
            LET piece == unwrap(piece_at(game, pos))
            IN  (piece.piece_type = King /\ piece.has_moved) =>
                    /\ castlings(candidates(pos, piece, game)) = {}
                    /\ castlings(valid_destinations_with_special_cases(pos, game)) = {})
    /\ [][\A color \in Colors :
            (\E pos \in king_squares(game, color) : unwrap(piece_at(game, pos)).has_moved)
                => (\A pos \in king_squares(game', color) :
                        unwrap(piece_at(game', pos)).has_moved)]_vars

\* The white king went to F1 and is back on E1, beside the empty squares F1
\* and G1 and the rook on H1 that never moved.
C5_Witness ==
    /\ piece_at(game, E1) = Some([Piece(King, White) EXCEPT !.has_moved = TRUE])
    /\ game.last_move = Some(NormalMove(F1, E1, None))
    /\ ~is_some(piece_at(game, F1))
    /\ ~is_some(piece_at(game, G1))
    /\ piece_at(game, H1) = Some(Piece(Rook, White))

\* The rank a pawn of the given color advances by.
forward(color) == IF color = White THEN 1 ELSE -1

\* The board after the pawn on origin has captured, en passant, the pawn on
\* beside: both squares empty, the capturing pawn on behind.
en_passant_board(g, origin, beside, behind) ==
    [x \in 1..8 |->
        [y \in 1..8 |->
            IF <<x - 1, y - 1>> = origin \/ <<x - 1, y - 1>> = beside
            THEN None
            ELSE IF <<x - 1, y - 1>> = behind
            THEN piece_at(g, origin)
            ELSE g.pieces[x][y]]]

\* C6: when a pawn of the active color stands beside an enemy pawn whose
\* double step to that square was the last move, the square behind the enemy
\* pawn is among valid_destinations of the pawn unless the capture leaves the
\* own king in check, and performing that request puts the pawn there and
\* empties its origin and the square beside it, where the enemy pawn stood.
\* For both colors and both sides.
C6_EnPassantCapture ==
    \A origin \in Positions, side \in {-1, 1} :
        LET color == active_color(game)
            beside == <<origin[1] + side, origin[2]>>
            behind == <<origin[1] + side, origin[2] + forward(color)>>
            start == <<origin[1] + side, origin[2] + 2 * forward(color)>>
            expected == en_passant_board(game, origin, beside, behind)
            result == perform_move_request(game, MoveRequest(origin, behind, None))
        IN  (/\ holds_color(game, origin, color)
             /\ unwrap(piece_at(game, origin)).piece_type = Pawn
             /\ beside \in Positions
             /\ start \in Positions
             /\ holds_color(game, beside, other(color))
             /\ unwrap(piece_at(game, beside)).piece_type = Pawn
             /\ game.last_move = Some(NormalMove(start, beside, None)))
            => /\ ~is_king_in_check([pieces |-> expected, last_move |-> None], color)
                    => behind \in Range(valid_destinations(origin, game))
               /\ behind \in Range(valid_destinations(origin, game))
                    => /\ is_some(result)
                       /\ unwrap(result).pieces = expected
                       /\ ~is_some(piece_at(unwrap(result), beside))
                       /\ ~is_some(piece_at(unwrap(result), origin))
                       /\ piece_at(unwrap(result), behind) = piece_at(game, origin)

\* The white pawn on E5 has captured the black pawn that stepped from D7 to
\* D5: it stands on D6, and D5 and E5 are empty.
C6_Witness ==
    /\ is_some(game.last_move)
    /\ unwrap(game.last_move).kind = "EnPassante"
    /\ unwrap(game.last_move).origin = <<4, 4>>
    /\ unwrap(game.last_move).destination = <<3, 5>>
    /\ piece_at(game, <<3, 5>>) = Some([Piece(Pawn, White) EXCEPT !.has_moved = TRUE])
    /\ ~is_some(piece_at(game, <<3, 4>>))
    /\ ~is_some(piece_at(game, <<4, 4>>))

\* The pawns on the board.
pawn_squares(g) ==
    {pos \in keys(g.pieces) : unwrap(piece_at(g, pos)).piece_type = Pawn}

\* C7: every EnPassante move generated for a pawn captures an enemy pawn on
\* the square beside it, and the last move is a NormalMove of exactly two
\* ranks ending on that square.
C7_EnPassantOnlyAfterDoubleStep ==
    \A origin \in pawn_squares(game) :
        \A mov \in Range(pawn_destinations(origin, game)) :
            mov.kind = "EnPassante" =>
                LET beside == mov.throwing[1]
                IN  /\ beside[2] = origin[2]
                    /\ abs(beside[1] - origin[1]) = 1
                    /\ is_some(piece_at(game, beside))
                    /\ mov.throwing[2] = unwrap(piece_at(game, beside))
                    /\ unwrap(piece_at(game, beside)).piece_type = Pawn
                    /\ unwrap(piece_at(game, beside)).color
                            # unwrap(piece_at(game, origin)).color
                    /\ is_some(game.last_move)
                    /\ unwrap(game.last_move).kind = "NormalMove"
                    /\ unwrap(game.last_move).destination = beside
                    /\ abs(unwrap(game.last_move).destination[2]
                           - unwrap(game.last_move).origin[2]) = 2

\* The black pawn has come beside the white pawn on E5 by the single steps
\* D7 to D6 and D6 to D5, and no en passant is offered to the white pawn.
C7_Witness ==
    /\ game.last_move = Some(NormalMove(<<3, 5>>, <<3, 4>>, None))
    /\ piece_at(game, <<4, 4>>) = Some([Piece(Pawn, White) EXCEPT !.has_moved = TRUE])
    /\ piece_at(game, <<3, 4>>) = Some([Piece(Pawn, Black) EXCEPT !.has_moved = TRUE])
    /\ active_color(game) = White
    /\ \A mov \in Range(pawn_destinations(<<4, 4>>, game)) : mov.kind = "NormalMove"

\* Some request of the active color is accepted.
some_request_accepted(g) ==
    \E origin \in Positions :
        /\ holds_color(g, origin, active_color(g))
        /\ \E moves \in {valid_destinations_with_special_cases(origin, g)} :
               \E destination \in Positions :
                   is_some(perform_move_request_among(g,
                               MoveRequest(origin, destination, None), moves))

\* C8: winner() is Some(the color not to move) exactly when no piece of the
\* active color has a legal move, and None otherwise, whether or not the
\* active king is in check.
C8_WinnerIffNoLegalMove ==
    /\ winner(game) =
          IF some_request_accepted(game) THEN None ELSE Some(other(active_color(game)))
    /\ (\A pos \in keys(game.pieces) :
            holds_color(game, pos, active_color(game))
                => valid_destinations(pos, game) = << >>)
       <=> winner(game) = Some(other(active_color(game)))

\* Stalemate: Black is to move, has no legal move, is not in check, and
\* White is the winner.
C8_Witness ==
    /\ active_color(game) = Black
    /\ ~is_king_in_check(game, Black)
    /\ ~some_request_accepted(game)
    /\ winner(game) = Some(White)

\* The squares the pieces moved by a move stand on after it.
mover_squares(mov) ==
    IF mov.kind = "Castling"
    THEN {mov.king_destination, mov.rook_destination}
    ELSE {mov.destination}

\* C9: every piece of Game::new() has has_moved = false; after every accepted
\* move the pieces that moved have has_moved = true; and a piece with
\* has_moved = false is a piece that stood on the same square, with has_moved
\* = false, before the move, so has_moved never goes back to false.
C9_HasMovedMonotone ==
    /\ [](game = NewGame =>
            \A pos \in keys(game.pieces) : ~unwrap(piece_at(game, pos)).has_moved)
    /\ [][game' # game =>
            /\ \A pos \in mover_squares(unwrap(game'.last_move)) :
                   /\ is_some(piece_at(game', pos))
                   /\ unwrap(piece_at(game', pos)).has_moved
            /\ \A pos \in keys(game'.pieces) :
                   ~unwrap(piece_at(game', pos)).has_moved
                       => piece_at(game, pos) = piece_at(game', pos)]_vars

\* The black pawn that captured en passant from D4 to E3 has has_moved = true.
C9_Witness ==
    /\ is_some(game.last_move)
    /\ unwrap(game.last_move).kind = "EnPassante"
    /\ unwrap(game.last_move).destination = <<4, 2>>
    /\ piece_at(game, <<4, 2>>) = Some([Piece(Pawn, Black) EXCEPT !.has_moved = TRUE])

\* The squares of the home rank strictly between two files.
between(low, high, rank) == {<<x, rank>> : x \in (low + 1)..(high - 1)}

\* The condition for castling with the rook of the given corner file.
may_castle(g, pos, corner_file) ==
    LET king == unwrap(piece_at(g, pos))
        home == IF king.color = White THEN E1 ELSE E8
        corner == piece_at(g, <<corner_file, home[2]>>)
    IN  /\ ~king.has_moved
        /\ pos = home
        /\ is_some(corner)
        /\ unwrap(corner).piece_type = Rook
        /\ ~unwrap(corner).has_moved
        /\ \A square \in between(corner_file, home[1], home[2])
                         \cup between(home[1], corner_file, home[2]) :
               ~is_some(piece_at(g, square))

\* C10: for every king and both sides, a Castling candidate with the rook of
\* that side's corner is generated if and only if the king has has_moved =
\* false and stands on its home square, the piece on the corner is a rook
\* with has_moved = false, and the squares between them are empty.
C10_CastlingCandidateIff ==
    \A color \in Colors :
        \A pos \in king_squares(game, color) :
            \A corner_file \in {A1[1], H1[1]} :
                (\E mov \in castlings(castling_destinations(pos, game)) :
                    mov.rook_origin[1] = corner_file)
                <=> may_castle(game, pos, corner_file)

\* The black rook went from H8 to G8 and back: the king on E8 never moved,
\* F8 and G8 are empty, and no castling with that rook is generated.
C10_Witness ==
    /\ piece_at(game, E8) = Some(Piece(King, Black))
    /\ piece_at(game, <<7, 7>>) = Some([Piece(Rook, Black) EXCEPT !.has_moved = TRUE])
    /\ ~is_some(piece_at(game, <<5, 7>>))
    /\ ~is_some(piece_at(game, <<6, 7>>))
    /\ castling_destinations(E8, game) = << >>

\* The board after the king on origin has castled toward side (-1 West, 1
\* East) with the rook on the corner of that side: the king two squares
\* toward the rook, the rook on the square the king passed, both with
\* has_moved = true, their origins empty, every other square as it was.
castled_board(g, origin, side) ==
    LET corner == <<IF side = 1 THEN H1[1] ELSE A1[1], origin[2]>>
    IN  [x \in 1..8 |->
            [y \in 1..8 |->
                IF <<x - 1, y - 1>> = origin \/ <<x - 1, y - 1>> = corner
                THEN None
                ELSE IF <<x - 1, y - 1>> = <<origin[1] + 2 * side, origin[2]>>
                THEN Some([unwrap(piece_at(g, origin)) EXCEPT !.has_moved = TRUE])
                ELSE IF <<x - 1, y - 1>> = <<origin[1] + side, origin[2]>>
                THEN Some([unwrap(piece_at(g, corner)) EXCEPT !.has_moved = TRUE])
                ELSE g.pieces[x][y]]]

\* C11: whenever the request of the active king from its home square to the
\* square two files toward a rook is answered by a Castling move, the result
\* has the king two squares toward the rook and the rook on the square the
\* king passed, both with has_moved = true, both origin squares empty, as
\* many pieces as before, and every other square unchanged.
C11_CastlingEffect ==
    \A origin \in king_squares(game, active_color(game)), side \in {-1, 1} :
        LET destination == <<origin[1] + 2 * side, origin[2]>>
            mov == IF destination \in Positions
                   THEN to_move(MoveRequest(origin, destination, None), game)
                   ELSE None
            result == perform_move_request(game, MoveRequest(origin, destination, None))
        IN  (is_some(mov) /\ unwrap(mov).kind = "Castling") =>
                /\ origin = (IF active_color(game) = White THEN E1 ELSE E8)
                /\ is_some(result)
                /\ unwrap(result).pieces = castled_board(game, origin, side)
                /\ Cardinality(keys(unwrap(result).pieces)) = Cardinality(keys(game.pieces))
                /\ unwrap(result).last_move = mov

\* White has castled with the rook of A1: the king stands on C1 and the rook
\* on D1, both with has_moved = true, and A1, B1 and E1 are empty.
C11_Witness ==
    /\ is_some(game.last_move)
    /\ unwrap(game.last_move).kind = "Castling"
    /\ piece_at(game, C1) = Some([Piece(King, White) EXCEPT !.has_moved = TRUE])
    /\ piece_at(game, D1) = Some([Piece(Rook, White) EXCEPT !.has_moved = TRUE])
    /\ ~is_some(piece_at(game, A1))
    /\ ~is_some(piece_at(game, B1))
    /\ ~is_some(piece_at(game, E1))

\* The file of the corner a king castles toward on a side (-1 West, 1 East).
corner_file_of(side) == IF side = 1 THEN H1[1] ELSE A1[1]

\* The position after castling on a side, as the legality filter sees it.
castled(g, origin, side) ==
    [pieces |-> castled_board(g, origin, side), last_move |-> g.last_move]

\* The castling destination of a side is offered to the king on origin.
castling_offered(g, origin, side) ==
    /\ <<origin[1] + 2 * side, origin[2]>> \in Range(valid_destinations(origin, g))
    /\ \E mov \in castlings(valid_destinations_with_special_cases(origin, g)) :
           mov.king_destination = <<origin[1] + 2 * side, origin[2]>>

\* C17, as stated: whenever the king is unmoved on its home square, the rook
\* of a side is unmoved and the squares between them are empty, the castling
\* destination is in valid_destinations of the king, whatever is attacked.
C17_CastlingWhateverIsAttacked ==
    \A color \in Colors :
        \A origin \in king_squares(game, color), side \in {-1, 1} :
            may_castle(game, origin, corner_file_of(side))
                => <<origin[1] + 2 * side, origin[2]>>
                       \in Range(valid_destinations(origin, game))

\* C17, amended: the castling destination of a side is in valid_destinations
\* of the king if and only if the king is unmoved on its home square, the
\* rook of that side is unmoved, the squares between them are empty, and the
\* king is not in check on its destination in the position after the
\* castling; attacks on the king's origin and on the square it passes play
\* no part.
C17_CastlingUnlessDestinationAttacked ==
    \A color \in Colors :
        \A origin \in king_squares(game, color), side \in {-1, 1} :
            castling_offered(game, origin, side)
            <=> /\ may_castle(game, origin, corner_file_of(side))
                /\ ~is_king_in_check(castled(game, origin, side), color)

\* The white king on E1 is in check from the knight on F3, D1 is attacked by
\* the knight on E3, and castling to C1 is offered; castling to G1, which
\* the knight on F3 attacks, is not.
C17_Witness ==
    /\ piece_at(game, <<5, 2>>) = Some([Piece(Knight, Black) EXCEPT !.has_moved = TRUE])
    /\ piece_at(game, <<4, 2>>) = Some([Piece(Knight, Black) EXCEPT !.has_moved = TRUE])
    /\ is_king_in_check(game, White)
    /\ may_castle(game, E1, A1[1])
    /\ may_castle(game, E1, H1[1])
    /\ castling_offered(game, E1, -1)
    /\ ~castling_offered(game, E1, 1)
    /\ G1 \notin Range(valid_destinations(E1, game))

\* The squares a piece on origin reaches by k steps of the vector <<dx, dy>>
\* with k up to max_steps: the empty squares up to the first occupied one,
\* and that one if it holds a piece of the other color.
reach(g, origin, vector, max_steps) ==
    LET color == unwrap(piece_at(g, origin)).color
        at(k) == <<origin[1] + vector[1] * k, origin[2] + vector[2] * k>>
    IN  {at(k) : k \in {k \in 1..max_steps :
            /\ at(k) \in Positions
            /\ \A j \in 1..(k - 1) : ~is_some(piece_at(g, at(j)))
            /\ ~holds_color(g, at(k), color)}}

\* The directions and the number of steps of the pattern of a piece type.
pattern(piece_type) ==
    CASE piece_type = King -> <<all, 1>>
      [] piece_type = Queen -> <<all, 7>>
      [] piece_type = Rook -> <<all_non_diagonal, 7>>
      [] piece_type = Bishop -> <<all_diagonal, 7>>

\* The squares holding a king, a queen, a rook or a bishop.
slider_squares(g) ==
    {pos \in keys(g.pieces) :
        unwrap(piece_at(g, pos)).piece_type \in {King, Queen, Rook, Bishop}}

\* C18: for every king, queen, rook and bishop on the board, the
\* destinations along each direction of its pattern are exactly the empty
\* squares from the origin outward up to the first occupied square, plus
\* that square if and only if it holds an enemy piece; each is produced
\* once, and they are the destinations of the NormalMove candidates of the
\* piece, each naming the piece on its destination as captured.
C18_RayDestinations ==
    \A origin \in slider_squares(game) :
        LET piece == unwrap(piece_at(game, origin))
            directions == pattern(piece.piece_type)[1]
            max_steps == pattern(piece.piece_type)[2]
            found == destinations(origin, directions, max_steps, game)
            normal == {mov \in Range(candidates(origin, piece, game)) :
                          mov.kind = "NormalMove"}
        IN  /\ \A n \in 1..Len(directions) :
                   Range(destinations(origin, <<directions[n]>>, max_steps, game))
                       = reach(game, origin, to_x_y(directions[n]), max_steps)
            /\ Range(found) =
                   UNION {reach(game, origin, to_x_y(directions[n]), max_steps) :
                              n \in 1..Len(directions)}
            /\ Cardinality(Range(found)) = Len(found)
            /\ {mov.destination : mov \in normal} = Range(found)
            /\ \A mov \in normal :
                   mov.origin = origin /\ mov.throwing = piece_at(game, mov.destination)

\* The white queen on H5 reaches H3 but not the own pawn on H2, the black
\* pawn on H7 but not H8 behind it, and the black king on E8 over G6 and F7.
C18_Witness ==
    /\ piece_at(game, <<7, 4>>) = Some([Piece(Queen, White) EXCEPT !.has_moved = TRUE])
    /\ piece_at(game, <<7, 1>>) = Some(Piece(Pawn, White))
    /\ piece_at(game, <<7, 6>>) = Some(Piece(Pawn, Black))
    /\ piece_at(game, <<4, 7>>) = Some(Piece(King, Black))
    /\ {<<7, 2>>, <<7, 6>>, <<5, 6>>, <<4, 7>>} \subseteq Range(destinations(<<7, 4>>, all, 7, game))
    /\ {<<7, 1>>, <<7, 7>>} \cap Range(destinations(<<7, 4>>, all, 7, game)) = {}

\* The offsets of a knight's jump, and the offsets of two steps along an axis
\* followed by one step along the same axis.
knight_offsets ==
    {<<1, 2>>, <<1, -2>>, <<-1, 2>>, <<-1, -2>>, <<2, 1>>, <<2, -1>>, <<-2, 1>>, <<-2, -1>>}

straight_offsets ==
    {<<0, 3>>, <<0, 1>>, <<0, -3>>, <<0, -1>>, <<3, 0>>, <<1, 0>>, <<-3, 0>>, <<-1, 0>>}

\* The squares at the given offsets from origin that are on the board and
\* hold no piece of the color of the piece on origin.
jump_targets(g, origin, offsets) ==
    {pos \in {<<origin[1] + offset[1], origin[2] + offset[2]>> : offset \in offsets} :
        /\ pos \in Positions
        /\ ~holds_color(g, pos, unwrap(piece_at(g, origin)).color)}

knight_squares(g) ==
    {pos \in keys(g.pieces) : unwrap(piece_at(g, pos)).piece_type = Knight}

\* C19: for every knight on the board, knight_destinations is exactly the
\* squares of the board at the offsets (+-1, +-2) and (+-2, +-1) that hold no
\* friendly piece, each produced once; no square reached by two steps and a
\* third along the same axis is produced; and these are the destinations of
\* the knight's candidates.
C19_KnightDestinations ==
    \A origin \in knight_squares(game) :
        LET found == knight_destinations(origin, game)
            moves == candidates(origin, unwrap(piece_at(game, origin)), game)
        IN  /\ Range(found) = jump_targets(game, origin, knight_offsets)
            /\ Cardinality(Range(found)) = Len(found)
            /\ \A offset \in straight_offsets :
                   <<origin[1] + offset[1], origin[2] + offset[2]>> \notin Range(found)
            /\ {mov.destination : mov \in Range(moves)} = Range(found)
            /\ \A mov \in Range(moves) :
                   /\ mov.kind = "NormalMove"
                   /\ mov.origin = origin
                   /\ mov.throwing = piece_at(game, mov.destination)

\* The black knight on E3 has its eight destinations, the white queen on C2
\* and the white bishop on G2 among them; the white knight on A3 has three:
\* B1, C4 and B5, C2 holding the white queen.
C19_Witness ==
    /\ piece_at(game, <<4, 2>>) = Some([Piece(Knight, Black) EXCEPT !.has_moved = TRUE])
    /\ Len(knight_destinations(<<4, 2>>, game)) = 8
    /\ {<<2, 1>>, <<6, 1>>} \subseteq Range(knight_destinations(<<4, 2>>, game))
    /\ piece_at(game, <<0, 2>>) = Some([Piece(Knight, White) EXCEPT !.has_moved = TRUE])
    /\ holds_color(game, <<2, 1>>, White)
    /\ Range(knight_destinations(<<0, 2>>, game)) = {<<1, 0>>, <<2, 3>>, <<1, 4>>}

\* The normal moves of the pawn on origin, from the board alone: one step
\* forward onto an empty square, two steps for a pawn that has not moved over
\* an empty square onto an empty square, and one step diagonally forward onto
\* an enemy piece.
pawn_normal_moves(g, origin) ==
    LET pawn == unwrap(piece_at(g, origin))
        one == <<origin[1], origin[2] + forward(pawn.color)>>
        two == <<origin[1], origin[2] + 2 * forward(pawn.color)>>
        free(pos) == pos \in Positions /\ ~is_some(piece_at(g, pos))
        diagonals == {<<origin[1] - 1, one[2]>>, <<origin[1] + 1, one[2]>>}
    IN  {NormalMove(origin, pos, None) :
            pos \in {pos \in {one} : free(one)}
                    \cup {pos \in {two} : ~pawn.has_moved /\ free(one) /\ free(two)}}
        \cup {NormalMove(origin, pos, piece_at(g, pos)) :
                pos \in {pos \in diagonals \cap Positions :
                            holds_color(g, pos, other(pawn.color))}}

\* C20: for every pawn on the board, the candidates other than en passant
\* are exactly: one step forward if that square is empty; two steps forward
\* if the pawn has not moved and both squares are empty; and each square
\* diagonally forward if and only if it holds an enemy piece, which the move
\* names as captured. Each is produced once; none captures straight ahead
\* or moves diagonally onto an empty or friendly square.
C20_PawnCandidates ==
    \A origin \in pawn_squares(game) :
        LET normal == SelectSeq(pawn_destinations(origin, game),
                                LAMBDA mov : mov.kind # "EnPassante")
        IN  /\ Range(normal) = pawn_normal_moves(game, origin)
            /\ Cardinality(Range(normal)) = Len(normal)
            /\ \A mov \in Range(normal) :
                   /\ mov.kind = "NormalMove"
                   /\ mov.destination[1] = origin[1] <=> mov.throwing = None
                   /\ mov.throwing # None =>
                          /\ abs(mov.destination[1] - origin[1]) = 1
                          /\ unwrap(mov.throwing).color
                                # unwrap(piece_at(game, origin)).color

\* The white pawn on E2 stands behind the black knight on E3 and can only
\* capture the black knight on F3; the white pawn on D2 can step to D3 and
\* D4 and capture on E3, but not move to C3, where a white pawn stands.
C20_Witness ==
    /\ holds_color(game, <<4, 2>>, Black)
    /\ holds_color(game, <<5, 2>>, Black)
    /\ holds_color(game, <<2, 2>>, White)
    /\ pawn_destinations(<<4, 1>>, game)
          = <<NormalMove(<<4, 1>>, <<5, 2>>, piece_at(game, <<5, 2>>))>>
    /\ {mov.destination : mov \in Range(pawn_destinations(<<3, 1>>, game))}
          = {<<3, 2>>, <<3, 3>>, <<4, 2>>}

\* The enemy pieces of color's king that have, among the candidates of their
\* movement pattern and before the legality filter, a move onto the square of
\* that king.
king_attackers(g, color) ==
    {origin \in keys(g.pieces) :
        /\ unwrap(piece_at(g, origin)).color = other(color)
        /\ \E mov \in Range(candidates(origin, unwrap(piece_at(g, origin)), g)) :
              /\ mov.kind = "NormalMove"
              /\ mov.destination = king_position(g, color)
              /\ is_some(mov.throwing)}

\* The squares between two squares of one line, both excluded.
squares_between(from, to) ==
    LET distance == IF abs(to[1] - from[1]) > abs(to[2] - from[2])
                    THEN abs(to[1] - from[1]) ELSE abs(to[2] - from[2])
    IN  {<<from[1] + n * ((to[1] - from[1]) \div distance),
           from[2] + n * ((to[2] - from[2]) \div distance)>> : n \in 1..(distance - 1)}

last_captured(g) ==
    IF ~is_some(g.last_move)
    THEN None
    ELSE LET last == unwrap(g.last_move)
         IN  CASE last.kind = "NormalMove" -> last.throwing
               [] last.kind = "EnPassante" -> Some(last.throwing[2])
               [] OTHER -> None

\* C22: every state holds exactly one White king and exactly one Black king,
\* and the piece the last accepted move captured, if any, is not a king.
C22_OneKingPerColor ==
    /\ \A color \in Colors : Cardinality(king_squares(game, color)) = 1
    /\ \A captured \in {last_captured(game)} :
          is_some(captured) => unwrap(captured).piece_type # King

\* Black's king, in check from the pawn on E6, has taken that pawn; both kings
\* are on the board.
C22_Witness ==
    /\ ply = 1
    /\ game.last_move
          = Some(NormalMove(<<5, 6>>, <<4, 5>>,
                            Some([Piece(Pawn, White) EXCEPT !.has_moved = TRUE])))
    /\ king_squares(game, Black) = {<<4, 5>>}
    /\ king_squares(game, White) = {E1}

\* The squares a move takes a piece from: each is the argument of a
\* pieces.remove(..).unwrap() of perform_move.
removed_squares(mov) ==
    IF mov.kind = "Castling"
    THEN {mov.king_origin, mov.rook_origin}
    ELSE {mov.origin}

\* The squares beside a pawn that hold an enemy pawn: the rounds of the third
\* loop of pawn_destinations that reach game.last_move.unwrap().
enemy_pawns_beside(g, origin) ==
    {side_pos \in {<<origin[1] - 1, origin[2]>>, <<origin[1] + 1, origin[2]>>}
                  \cap Positions :
        /\ is_some(piece_at(g, side_pos))
        /\ unwrap(piece_at(g, side_pos)).piece_type = Pawn
        /\ unwrap(piece_at(g, side_pos)).color # unwrap(piece_at(g, origin)).color}

\* C24: no public operation hits an internal abort. Always: the
\* piece of the last move's destination is there for active_color; each color
\* has a king for the lookup of is_king_in_check; whenever an enemy pawn stands
\* beside a pawn, last_move is present, and if it is that pawn's double step
\* the en-passant landing square is on the board; every generated candidate is
\* not a Promotion, has a piece on each square it takes a piece from, and
\* leaves the mover's king on the board of the legality simulation; and
\* valid_destinations of each of the 64 squares and perform_move_request of
\* each origin and destination then return a value.
C24_NoInternalAbort ==
    [](/\ is_some(game.last_move)
             => is_some(piece_at(game, move_destination(unwrap(game.last_move))))
       /\ \A color \in Colors : king_squares(game, color) # {}
       /\ \A origin \in pawn_squares(game) :
             \A side_pos \in enemy_pawns_beside(game, origin) :
                 /\ is_some(game.last_move)
                 /\ (/\ unwrap(game.last_move).kind = "NormalMove"
                     /\ unwrap(game.last_move).destination = side_pos
                     /\ abs(side_pos[2] - unwrap(game.last_move).origin[2]) = 2)
                       => is_some(step(side_pos,
                                       IF unwrap(piece_at(game, origin)).color = White
                                       THEN North ELSE South, 1))
       /\ \A origin \in keys(game.pieces) :
             \A mov \in Range(candidates(origin, unwrap(piece_at(game, origin)), game)) :
                 /\ mov.kind # "Promotion"
                 /\ \A pos \in removed_squares(mov) : is_some(piece_at(game, pos))
                 /\ king_squares(unwrap(perform_move(game, mov)),
                                 unwrap(piece_at(game, origin)).color) # {}
       /\ \A origin \in Positions :
             \A moves \in {valid_destinations_with_special_cases(origin, game)} :
                 /\ \A n \in 1..Len(moves) : move_destination(moves[n]) \in Positions
                 /\ \A destination \in Positions :
                       \A new_game \in {perform_move_request_among(game,
                                           MoveRequest(origin, destination, None), moves)} :
                           is_some(new_game) => unwrap(new_game).last_move # None)

\* White's pawn on E5 has the black pawn that has just made its double step
\* beside it on D5: the third loop of pawn_destinations unwraps last_move and
\* the landing square D6, and the legality simulation applies the en passant.
C24_Witness ==
    /\ game.last_move = Some(NormalMove(<<3, 6>>, <<3, 4>>, None))
    /\ enemy_pawns_beside(game, <<4, 4>>) = {<<3, 4>>}
    /\ \E mov \in Range(valid_destinations_with_special_cases(<<4, 4>>, game)) :
          mov.kind = "EnPassante" /\ mov.destination = <<3, 5>>

\* The squares of the pieces whose has_moved is false.
unmoved_squares(g) ==
    {pos \in keys(g.pieces) : ~unwrap(piece_at(g, pos)).has_moved}

\* The rank Game::new() places the pawns of a color on.
pawn_rank(color) == IF color = White THEN 1 ELSE MaxCoordinate - 1

\* C25: every piece whose has_moved is false stands where Game::new() placed
\* a piece of the same type and color; every double step offered to a pawn
\* starts on the pawn rank of its color; and the rook of every castling
\* candidate has the color of the king.
C25_UnmovedPiecesAtHome ==
    /\ \A pos \in unmoved_squares(game) : piece_at(game, pos) = piece_at(NewGame, pos)
    /\ \A origin \in pawn_squares(game) :
          \A mov \in Range(pawn_steps(origin, game)) :
              abs(mov.destination[2] - origin[2]) = 2
                  => origin[2] = pawn_rank(unwrap(piece_at(game, origin)).color)
    /\ \A color \in Colors :
          \A origin \in king_squares(game, color) :
              \A mov \in Range(castling_destinations(origin, game)) :
                  unwrap(piece_at(game, mov.rook_origin))
                      = [Piece(Rook, color) EXCEPT !.has_moved = FALSE]

\* White's pawn has taken en passant, which does not set has_moved, and is
\* flagged from the moves that brought it to E5; the pawns that have not moved
\* are offered their double step and both kings and all four rooks are at home
\* unmoved.
C25_Witness ==
    /\ ply = 1
    /\ is_some(game.last_move)
    /\ unwrap(game.last_move).kind = "EnPassante"
    /\ piece_at(game, <<3, 5>>) = Some([Piece(Pawn, White) EXCEPT !.has_moved = TRUE])
    /\ {A1, E1, H1, <<0, 7>>, E8, <<7, 7>>} \subseteq unmoved_squares(game)
    /\ Len(pawn_steps(<<2, 6>>, game)) = 2

\* C26: always, the legal moves of an origin have pairwise different
\* destinations, so valid_destinations holds no square twice and
\* MoveRequest::to_move resolves the request for each of its squares to the one
\* legal move that goes there.
C26_OneMovePerDestination ==
    [](\A origin \in keys(game.pieces) :
           \A moves \in {valid_destinations_with_special_cases(origin, game)} :
               /\ \A m \in 1..Len(moves), n \in 1..Len(moves) :
                     move_destination(moves[m]) = move_destination(moves[n]) => m = n
               /\ Cardinality(Range(valid_destinations(origin, game))) = Len(moves)
               /\ \A n \in 1..Len(moves) :
                     to_move_among(MoveRequest(origin, move_destination(moves[n]), None),
                                   moves)
                         = Some(moves[n]))

\* White's pawn on E5 has two legal moves, the step to E6 and the en passant
\* to D6.
C26_Witness ==
    /\ piece_at(game, <<4, 4>>) = Some([Piece(Pawn, White) EXCEPT !.has_moved = TRUE])
    /\ {mov.kind : mov \in Range(valid_destinations_with_special_cases(<<4, 4>>, game))}
          = {"NormalMove", "EnPassante"}
    /\ Len(valid_destinations(<<4, 4>>, game)) = 2

\* The rank a pawn of a color cannot advance from.
last_rank(color) == IF color = White THEN MaxCoordinate ELSE 0

\* The squares of the pawns that stand on their last rank.
last_rank_pawns(g) ==
    {pos \in pawn_squares(g) : pos[2] = last_rank(unwrap(piece_at(g, pos)).color)}

\* Every piece of the game after a move has the type and color of the piece
\* that stood, before the move, on its square or on a square the move took a
\* piece from.
keeps_types(g, new_game) ==
    \A pos \in keys(new_game.pieces) :
        \E old \in {pos} \cup removed_squares(unwrap(new_game.last_move)) :
            /\ is_some(piece_at(g, old))
            /\ unwrap(piece_at(g, old)).piece_type
                  = unwrap(piece_at(new_game, pos)).piece_type
            /\ unwrap(piece_at(g, old)).color = unwrap(piece_at(new_game, pos)).color

\* The state part of C27. The requests with a promotion are those for the
\* legal destinations of the pieces of the active color, which are the
\* requests perform_move_request accepts.
no_promotion(g) ==
    /\ \A origin \in keys(g.pieces) :
          \A mov \in Range(candidates(origin, unwrap(piece_at(g, origin)), g)) :
              mov.kind # "Promotion"
    /\ \A pos \in last_rank_pawns(g) :
          /\ valid_destinations_with_special_cases(pos, g) = << >>
          /\ (is_some(g.last_move) /\ move_destination(unwrap(g.last_move)) = pos)
                => unwrap(g.last_move).kind = "NormalMove"
    /\ \A origin \in {pos \in keys(g.pieces) : holds_color(g, pos, active_color(g))} :
          \A moves \in {valid_destinations_with_special_cases(origin, g)} :
              \A n \in 1..Len(moves), promotion \in PromotionInputs :
                  \A new_game \in {perform_move_request_among(g,
                                      MoveRequest(origin, move_destination(moves[n]),
                                                  promotion),
                                      moves)} :
                      is_some(new_game) /\ keeps_types(g, unwrap(new_game))

\* C27: no Promotion move is ever generated. A pawn reaches its last rank by
\* a NormalMove, has no legal move from there and is, after every later move,
\* still the same pawn on that square unless that move takes it; and a request
\* whose promotion field is set changes the type of no piece.
C27_NoPromotion ==
    /\ [](no_promotion(game))
    /\ [][\A pos \in last_rank_pawns(game) :
              \/ piece_at(game', pos) = piece_at(game, pos)
              \/ move_destination(unwrap(game'.last_move)) = pos]_vars

\* White's pawn has just taken the rook on A8 from B7 by a NormalMove; it is a
\* pawn on the last rank without a legal move.
C27_Witness ==
    /\ ply = 1
    /\ game.last_move
          = Some(NormalMove(<<1, 6>>, <<0, 7>>,
                            Some([Piece(Rook, Black) EXCEPT !.has_moved = FALSE])))
    /\ piece_at(game, <<0, 7>>) = Some([Piece(Pawn, White) EXCEPT !.has_moved = TRUE])
    /\ valid_destinations(<<0, 7>>, game) = << >>

\* C28: a successful normal move changes only its origin and destination.
\* After every accepted request whose move is a NormalMove, the origin is
\* empty, the destination holds the piece that stood on the origin with
\* has_moved = true, every other square holds what it held, last_move is that
\* move, and its captured piece is what stood on the destination before.
C28_NormalMoveFrame ==
    [][(is_some(game'.last_move) /\ unwrap(game'.last_move).kind = "NormalMove")
          => \A mov \in {unwrap(game'.last_move)} :
                /\ is_some(piece_at(game, mov.origin))
                /\ ~is_some(piece_at(game', mov.origin))
                /\ piece_at(game', mov.destination)
                      = Some([unwrap(piece_at(game, mov.origin)) EXCEPT !.has_moved = TRUE])
                /\ \A pos \in Positions \ {mov.origin, mov.destination} :
                      piece_at(game', pos) = piece_at(game, pos)
                /\ mov.throwing = piece_at(game, mov.destination)
                /\ mov \in Range(valid_destinations_with_special_cases(mov.origin, game))
      ]_vars

\* White's bishop has taken the knight that gave check on F3: the move records
\* the knight as captured and the bishop, coming from G2, stands on F3.
C28_Witness ==
    /\ ply = 1
    /\ game.last_move
          = Some(NormalMove(<<6, 1>>, <<5, 2>>,
                            Some([Piece(Knight, Black) EXCEPT !.has_moved = TRUE])))
    /\ piece_at(game, <<5, 2>>) = Some([Piece(Bishop, White) EXCEPT !.has_moved = TRUE])
    /\ ~is_some(piece_at(game, <<6, 1>>))

\* The number of pieces of a type and a color.
material(g, piece_type, color) ==
    Cardinality({pos \in keys(g.pieces) :
                    /\ unwrap(piece_at(g, pos)).piece_type = piece_type
                    /\ unwrap(piece_at(g, pos)).color = color})

\* The square a move takes an enemy piece from, if it takes one.
captured_square(mov) ==
    CASE mov.kind = "NormalMove" ->
            IF is_some(mov.throwing) THEN Some(mov.destination) ELSE None
      [] mov.kind = "EnPassante" -> Some(mov.throwing[1])
      [] OTHER -> None

\* C29: material never grows and only enemy non-king pieces disappear. Every
\* accepted request leaves the number of pieces unchanged when its move is a
\* castling or a normal move onto an empty square, and reduces it by one when
\* it is a normal move onto an occupied square or an en passant; the piece
\* that disappears has the color opposite to the mover's and is not a king;
\* the mover has as many pieces of each type as before, and the other side as
\* many but for the piece that disappeared.
C29_MaterialNeverGrows ==
    [][game' # game
          => \A mov \in {unwrap(game'.last_move)} :
             \A mover \in {active_color(game)} :
             \A square \in {captured_square(mov)} :
                /\ Cardinality(keys(game'.pieces))
                      = Cardinality(keys(game.pieces)) - Len(square)
                /\ (mov.kind = "NormalMove" /\ is_some(piece_at(game, mov.destination)))
                      => is_some(square)
                /\ is_some(square)
                      => /\ is_some(piece_at(game, unwrap(square)))
                         /\ unwrap(piece_at(game, unwrap(square))).color = other(mover)
                         /\ unwrap(piece_at(game, unwrap(square))).piece_type # King
                         /\ piece_at(game', unwrap(square))
                               # piece_at(game, unwrap(square))
                /\ \A piece_type \in PieceTypes :
                      /\ material(game', piece_type, mover)
                            = material(game, piece_type, mover)
                      /\ material(game', piece_type, other(mover))
                            = material(game, piece_type, other(mover))
                              - (IF /\ is_some(square)
                                    /\ unwrap(piece_at(game, unwrap(square))).piece_type
                                          = piece_type
                                 THEN 1 ELSE 0)
      ]_vars

\* Black's pawn has taken the white pawn on E4 en passant from D4: 31 pieces
\* are left, 15 of them white, and E4 is empty.
C29_Witness ==
    /\ ply = 1
    /\ is_some(game.last_move)
    /\ unwrap(game.last_move).kind = "EnPassante"
    /\ unwrap(game.last_move).throwing[1] = <<4, 3>>
    /\ ~is_some(piece_at(game, <<4, 3>>))
    /\ Cardinality(keys(game.pieces)) = 31
    /\ material(game, Pawn, White) = 7
    /\ material(game, Pawn, Black) = 8

\* Every perform_move_request, of any origin, any destination and any
\* promotion field, returns None.
every_request_refused(g) ==
    \A origin \in Positions :
        \A moves \in {valid_destinations_with_special_cases(origin, g)} :
            \A destination \in Positions, promotion \in {None} \cup PromotionInputs :
                perform_move_request_among(g, MoveRequest(origin, destination, promotion),
                                           moves) = None

\* C30: a decided game is terminal. In every state where winner() is
\* Some(c) every perform_move_request returns None, and no step from such a
\* state changes the game, the active color or the winner.
C30_DecidedGameIsTerminal ==
    /\ [](is_some(winner(game)) => every_request_refused(game))
    /\ [][is_some(winner(game))
             => /\ game' = game
                /\ active_color(game') = active_color(game)
                /\ winner(game') = winner(game)]_vars

\* White is checkmated by the queen on H4 before any explored request: Black
\* has won, and requests for pieces of both colors are refused.
C30_Witness ==
    /\ ply = 0
    /\ game.last_move = Some(NormalMove(<<3, 7>>, <<7, 3>>, None))
    /\ is_king_in_check(game, White)
    /\ winner(game) = Some(Black)
    /\ every_request_refused(game)

\* ------------------------------------------------------------------------
\* Properties of the functions called on their own

\* C12: perform_move with a Promotion move never returns, neither a game nor
\* None: the call ends in the not-implemented failure.
C12_PromotionNotImplemented ==
    call.op = "perform_move" =>
        /\ call.args[1].kind = "Promotion"
        /\ outcome.kind = "panicked"
        /\ outcome.kind # "returned"

\* perform_move has been called with the promotion of the pawn of A2 on A3
\* to a queen, and has not returned.
C12_Witness ==
    /\ call = [op |-> "perform_move",
               args |-> <<Promotion(<<0, 1>>, <<0, 2>>, Piece(Queen, White))>>]
    /\ outcome = Panicked

\* The coordinates of the board.
on_board(x, y) == x \in 0..7 /\ y \in 0..7

\* C13: for all 8-bit unsigned f and r, new_checked returns the position
\* with x = f and y = r if and only if 0 <= f <= 7 and 0 <= r <= 7, and None
\* for every other input; Position::new returns that position for the same
\* inputs and fails for every other.
C13_PositionConstruction ==
    /\ call.op = "new_checked" =>
          /\ outcome.kind = "returned"
          /\ outcome.value[1] = Some(<<call.args[1], call.args[2]>>)
                <=> on_board(call.args[1], call.args[2])
          /\ ~on_board(call.args[1], call.args[2]) => outcome.value[1] = None
    /\ call.op = "new" =>
          /\ on_board(call.args[1], call.args[2])
                => outcome = Returned(<<call.args[1], call.args[2]>>)
          /\ ~on_board(call.args[1], call.args[2]) => outcome.kind = "panicked"

\* Position::new(7, 8) has failed.
C13_Witness ==
    /\ call = [op |-> "new", args |-> <<7, 8>>]
    /\ outcome.kind = "panicked"

\* The direction opposite to a direction.
opposite(dir) ==
    CASE dir = North -> South
      [] dir = NorthEast -> SouthWest
      [] dir = East -> West
      [] dir = SouthEast -> NorthWest
      [] dir = South -> North
      [] dir = SouthWest -> NorthEast
      [] dir = West -> East
      [] dir = NorthWest -> SouthEast

\* C14: whenever moved(p, d, n) is a position, moving that position by the
\* same n in the direction opposite to d returns exactly p.
C14_MovedRoundTrip ==
    (call.op = "moved" /\ is_some(outcome.value[1])) =>
        moved(unwrap(outcome.value[1]), opposite(call.args[2]), call.args[3])
            = Some(call.args[1])

\* moved(H1, NorthWest, 7) is A8.
C14_Witness ==
    /\ call = [op |-> "moved", args |-> <<H1, NorthWest, 7>>]
    /\ outcome = Returned(Some(<<0, 7>>))

\* C15: for every position p of the board, direction d and signed 8-bit n,
\* moved(p, d, n) returns the position (p.x + dx * n, p.y + dy * n) when both
\* coordinates lie in 0..7, and None otherwise, overflow of the
\* multiplication or of the addition included; it never fails.
C15_MovedArithmetic ==
    call.op = "moved" =>
        LET x == call.args[1][1] + to_x_y(call.args[2])[1] * call.args[3]
            y == call.args[1][2] + to_x_y(call.args[2])[2] * call.args[3]
        IN  /\ outcome.kind = "returned"
            /\ outcome.value[1] = IF on_board(x, y) THEN Some(<<x, y>>) ELSE None

\* moved(D4, West, -128), whose multiplication -1 * -128 overflows, is None.
C15_Witness ==
    /\ call = [op |-> "moved", args |-> <<<<3, 3>>, West, -128>>]
    /\ ~is_some(checked_mul(to_x_y(West)[1], -128))
    /\ outcome = Returned(None)

\* The texts of an upper-case letter A to H followed by a digit 1 to 8.
is_square_name(text) ==
    /\ Len(text) = 2
    /\ text[1] \in CharA..(CharA + 7)
    /\ text[2] \in Char1..(Char1 + 7)

\* C16: from_str returns a position exactly for the texts of a letter A-H
\* followed by a digit 1-8, and then the position (letter - 'A', digit - '1');
\* for every other text (another length, lower case, chars below 'A' or '1',
\* chars above 'H' or '8', chars of more than one byte) it fails. "E1" and
\* "E8" are the home squares castling_destinations names.
C16_FromStr ==
    /\ call.op = "from_str" =>
          LET text == call.args[1]
          IN  /\ outcome.kind = "returned" <=> is_square_name(text)
              /\ is_square_name(text)
                    => outcome = Returned(<<text[1] - CharA, text[2] - Char1>>)
              /\ ~is_square_name(text) => outcome = Panicked
    /\ from_str(<<CharA, Char1>>) = Returned(<<0, 0>>)
    /\ from_str(<<CharA + 7, Char1 + 7>>) = Returned(<<7, 7>>)
    /\ from_str(<<CharA + 4, Char1>>) = Returned(E1)
    /\ from_str(<<CharA + 4, Char1 + 7>>) = Returned(E8)

\* from_str of the two chars U+0141 U+0131, four bytes whose chars end in
\* the bits of 'A' and '1', has failed.
C16_Witness ==
    /\ call = [op |-> "from_str", args |-> <<<<321, 305>>>>]
    /\ as_u8(321) = CharA
    /\ as_u8(305) = Char1
    /\ outcome = Panicked

\* ------------------------------------------------------------------------
\* Properties of the game of knights moving out and back

\* The squares and the pieces on them, whatever the pieces' has_moved says.
placement(g) ==
    [pos \in keys(g.pieces) |->
        <<unwrap(piece_at(g, pos)).piece_type, unwrap(piece_at(g, pos)).color>>]

\* C23: play can continue forever without a winner. Along every game in which
\* both sides keep moving knights out and back, accepted requests never stop
\* coming and winner() is None in every state.
C23_PlayForeverWithoutWinner ==
    /\ [](winner(game) = None)
    /\ []<><<KnightOut \/ KnightBack>>_vars

\* The position of Game::new() has come back: every piece stands where it
\* started, after the knight of B8 has gone out and returned and all four
\* knights have moved.
C23_Witness ==
    /\ placement(game) = placement(NewGame)
    /\ game.last_move = Some(NormalMove(<<2, 5>>, <<1, 7>>, None))
    /\ \A pos \in {<<1, 0>>, <<6, 0>>, <<1, 7>>, <<6, 7>>} :
          unwrap(piece_at(game, pos)).has_moved
    /\ winner(game) = None

====
